---- MODULE Spec2Model ----
(***************************************************************************)
(* tablo2plex: the streaming gateway of app.js.                            *)
(*                                                                         *)
(* The server is one Node.js process: every handler runs on the single     *)
(* event loop, so a handler is atomic from one suspension point (await) to *)
(* the next.  _channel has exactly one suspension point, the awaited       *)
(* device watch request of line 343, which lies between the capacity check *)
(* of line 342 and the counter increment of line 356.  Every action below  *)
(* is one event-loop turn: the arrival of a request (the handler up to its *)
(* first await or return), the continuation after the await, or a callback *)
(* the runtime invokes (request 'close', child process exit or error).     *)
(***************************************************************************)
EXTENDS Integers, FiniteSets, Sequences, TLC

\* ------------------------------------------------------------------ bounds

\* Number of GET /channel/{id} requests the clients issue in one behaviour.
MaxReqs == 3

Reqs == 1..MaxReqs

\* the longest lineup array the cloud answers with
MaxEls == 2

\* ------------------------------------------------------- program constants

\* app.js:163  var TUNER_COUNT = 2;  (the capacity N)
TUNER_COUNT == 2

\* Identifiers a client can put in the URL: a device-backed entry, a
\* direct-URL entry, a string that is no property at all, and a string that
\* is no lineup entry but a property every object literal inherits.
ChannelIds == {"CH1", "WEB1", "nope", "constructor"}

\* LINEUP_DATA is built as an object literal (app.js:1132), so a lookup of
\* one of these names finds the inherited Object.prototype member.
ObjectPrototypeKeys == {"constructor"}

\* What child_process.spawn can do (app.js:309, 348): return a running
\* child, throw synchronously, or return a child that could not be started
\* (executable not found) and will emit 'error' on a later turn.
SpawnOutcomes == {"running", "threw", "spawnfail"}

\* What the awaited device watch request can deliver (app.js:343-346): a
\* body that parses and names a playlist, a body JSON.parse rejects, or a
\* rejected promise (fetch fails, part_000:2204).
WatchOutcomes == {"ok", "unparsable", "rejected"}

\* A rejected promise leaves _channel and the route callback of app.js:457
\* as a rejected promise.  The router either passes it to its error handler,
\* which answers 500, or ignores it, and the unhandled rejection ends the
\* process; which one depends on the router version installed.
RejectionOutcomes == {"handled", "crash"}

VARIABLES
    LINEUP_DATA,      \* app.js:158  channel id -> type of the entry
    CURRENT_STREAMS,  \* app.js:168  the live session counter
    serverUp,         \* the server process has not died of an uncaught error
    pc,               \* per request: "idle" (not yet issued), "awaitWatch"
                      \*   (suspended at line 343), "returned"
    chan,             \* per request: req.params.channelId, "" before arrival
    resp,             \* per request: "none", "stream" (headers set, ffmpeg
                      \*   piped into res), "ended" (the pipe ended res),
                      \*   "404", "500"
    watch,            \* per request: the device watch request: "none",
                      \*   "sent", "ok", "unparsable", "rejected"
    ffmpeg,           \* per request: the child process: "none", "threw",
                      \*   "spawnfail", "failed" ('error' emitted),
                      \*   "running", "sigint" (SIGINT sent, still alive),
                      \*   "exited"
    onClose,          \* per request: the listener registered on req 'close':
                      \*   "none", "ott" (line 325), "ota" (line 368)
    client,           \* per request: the client's connection: "open", "gone"
    closeEmitted,     \* per request: req has emitted 'close'
    decs,             \* per request: how often its listener ran line 369
    simul             \* history: no watch response was delivered before the
                      \*   first TUNER_COUNT + 1 requests had all arrived

vars == <<LINEUP_DATA, CURRENT_STREAMS, serverUp, pc, chan, resp, watch,
          ffmpeg, onClose, client, closeEmitted, decs, simul>>

\* ------------------------------------------------- the rest of the process

\* The process around the gateway: the wall clock, the lineup Scheduler and
\* its state file, the credential envelope, and the signer of the device
\* requests.
VARIABLES
    now,              \* part_000:480  JSDate.ct, milliseconds
    schedFile,        \* schedule_lineup.json: [exists, interval, nextCheck]
    sched,            \* per Scheduler instance: its fields (part_000:1400-1408)
    boot,             \* position of the startup code of app.js:1247-1316
    firstRun,         \* this start found no credential or no lineup file
    LINEUP_UPDATE_INTERVAL,  \* part_000:447
    inflight,         \* per instance and trigger: executions of runTask
                      \*   suspended at part_000:1463
    last,             \* history: how the execution that ended last ended
    lastOk            \* history: the last execution the eager check or the
                      \*   timer started in which the lineup was refreshed

schedVars == <<now, schedFile, sched, boot, firstRun, LINEUP_UPDATE_INTERVAL,
               inflight, last, lastOk>>

VARIABLES
    credsFile,        \* the credential file: "none" or what it holds
    CREDS_DATA,       \* app.js:153  "undefined" or the record loaded
    tunerSource,      \* where TUNER_COUNT has its value from: "default"
                      \*   (app.js:163), "device" (line 739), "file" or
                      \*   "undefined" (line 783)
    cpc,              \* the process: "off", "setup" (reqCreds before the
                      \*   server-info request), "read" (before readCreds),
                      \*   "loaded", "exit" (exit() waits), "dead"
    tty,              \* process.stdin is a terminal
    mode,             \* the command line: "serve", "lineup" (--lineup),
                      \*   "creds" (--creds)
    found,            \* history: what readCreds found damaged
    unlinked,         \* history: unlinkSync "no" (not called), "ok", "failed"
    exitCalls,        \* history: calls of exit() in this process
    handshake         \* history: how the server-info request of setup went

credVars == <<credsFile, CREDS_DATA, tunerSource, cpc, tty, mode, found,
              unlinked, exitCalls, handshake>>

VARIABLES
    cstep,            \* "idle", "crypted" (crypt returned), "decrypted"
    plain,            \* the argument of Encryption.crypt, as bytes
    envelope,         \* what crypt returned
    ivC,              \* history: the IV crypt derived
    ivD,              \* history: the IV decrypt derived
    recovered         \* what decrypt returned

cipherVars == <<cstep, plain, envelope, ivC, ivD, recovered>>

VARIABLES
    wall,             \* the wall clock new Date() reads (part_000:530), ms
    deviceReqs        \* the device requests in flight: for each, what
                      \*   makeDeviceAuth was called with and returned (auth)
                      \*   and what fetch was called with (fetch)

signVars == <<wall, deviceReqs>>

VARIABLES
    tpc,              \* the generator: "none" or "ready" (constructed)
    tseed,            \* history: the seed it was made with
    mt,               \* part_000:1998  the state vector
    mti,              \* part_000:1999  the next word of mt to give out
    inst,             \* history: 1 for the first generator of a seed, 2
                      \*   for the second
    drawn,            \* history: the calls of random_int so far
    drew              \* what the last call of random_int returned

twisterVars == <<tpc, tseed, mt, mti, inst, drawn, drew>>

VARIABLES
    lineupFile,       \* the lineup file (LINEUP_FILE) as FS.readJSON returns
                      \*   it: [kind, els]
    oldLineup,        \* history: LINEUP_DATA before the last refresh that
                      \*   reached parseLineup
    lpc               \* the serving process: "serving", "exitWait" (exit()
                      \*   waits for a key, the server still answers),
                      \*   "exited"

lineupOwn == <<lineupFile, oldLineup, lpc>>

lineupVars == <<LINEUP_DATA, lineupFile, oldLineup, lpc>>

VARIABLES
    ivpc,             \* the derivation of the IV: "idle", "seeded" (the
                      \*   generator of line 2280 or 2312 is made), "discard"
                      \*   (in the loop of line 2283 or 2315), "fill" (in the
                      \*   loop of line 2285 or 2317), "done"
    ivSide,           \* "none", "crypt" or "decrypt"
    ivSeed,           \* part_000:2277, 2311  seed
    seedBuff,         \* part_000:2278  the four bytes crypt puts in front
    ivGen,            \* part_000:2280, 2312  the generator: [mt, mti]
    ivPull,           \* part_000:2281, 2313  pull
    ivAmount,         \* part_000:2282, 2314  amount
    dropped,          \* i of the discarding loop
    filled,           \* i of the filling loop
    ivBuff,           \* part_000:2284, 2316  the IV buffer, <<>> before
                      \*   Buffer.alloc
    calls,            \* history: the calls of random_int on ivGen
    beforeIv,         \* history: calls when the filling loop was entered
    ivCrypt           \* history: the IV crypt derived for this envelope

ivVars == <<ivpc, ivSide, ivSeed, seedBuff, ivGen, ivPull, ivAmount, dropped,
            filled, ivBuff, calls, beforeIv, ivCrypt>>

\* Everything the gateway handlers leave alone.
outsideGateway == <<schedVars, credVars, cipherVars, signVars, twisterVars,
    lineupOwn, ivVars>>

\* Everything the Scheduler and the startup code around it leave alone.
outsideSched == <<vars, credVars, cipherVars, signVars, twisterVars,
    lineupOwn, ivVars>>

\* Everything setup and the reading of the credentials leave alone.
outsideCreds == <<vars, schedVars, cipherVars, signVars, twisterVars,
    lineupOwn, ivVars>>

\* Everything Encryption leaves alone.
outsideCipher == <<vars, schedVars, credVars, signVars, twisterVars,
    lineupOwn, ivVars>>

\* Everything the device requests leave alone.
outsideSign == <<vars, schedVars, credVars, cipherVars, twisterVars,
    lineupOwn, ivVars>>

\* Everything a generator leaves alone.
outsideTwister == <<vars, schedVars, credVars, cipherVars, signVars,
    lineupOwn, ivVars>>

\* Everything a lineup refresh leaves alone.
outsideLineup == <<CURRENT_STREAMS, serverUp, pc, chan, resp, watch, ffmpeg,
                   onClose, client, closeEmitted, decs, simul, schedVars,
                   credVars, cipherVars, signVars, twisterVars, ivVars>>

\* Everything the derivation of the IV leaves alone.
outsideIv == <<vars, schedVars, credVars, cipherVars, signVars, twisterVars,
               lineupOwn>>

\* ------------------------------------------------------------------ lookup

\* app.js:303  const selectedChannel = LINEUP_DATA[channelId];
\* The result is abstracted to the entry's type field: "ota" or "ott" for an
\* own entry, "inherited" for a truthy inherited member (whose .type is
\* undefined), "undefined" when the property does not exist.
Lookup(id) ==
    IF id \in DOMAIN LINEUP_DATA THEN LINEUP_DATA[id]
    ELSE IF id \in ObjectPrototypeKeys THEN "inherited"
    ELSE "undefined"

\* Mutant of HasCapacity: the comparison off by one.
HasCapacityOffByOne == CURRENT_STREAMS <= TUNER_COUNT

\* app.js:342  if (CURRENT_STREAMS < TUNER_COUNT)
HasCapacity == CURRENT_STREAMS < TUNER_COUNT

\* app.js:328, 373  ffmpeg.kill('SIGINT'): the signal is delivered to a
\* child that is alive; a child that never started or is gone is untouched.
\* SIGINT is a signal the child can catch: it asks the child to stop and the
\* child stays alive until it exits by its own code (FfmpegExit), unlike
\* SIGKILL, which the kernel carries out.
Kill(st) == IF st = "running" THEN "sigint" ELSE st

\* ------------------------------------------------------------------- state

Init ==
    /\ LINEUP_DATA = [CH1 |-> "ota", WEB1 |-> "ott"]
    /\ CURRENT_STREAMS = 0
    /\ serverUp = TRUE
    /\ pc = [r \in Reqs |-> "idle"]
    /\ chan = [r \in Reqs |-> ""]
    /\ resp = [r \in Reqs |-> "none"]
    /\ watch = [r \in Reqs |-> "none"]
    /\ ffmpeg = [r \in Reqs |-> "none"]
    /\ onClose = [r \in Reqs |-> "none"]
    /\ client = [r \in Reqs |-> "open"]
    /\ closeEmitted = [r \in Reqs |-> FALSE]
    /\ decs = [r \in Reqs |-> 0]
    /\ simul = TRUE

\* ----------------------------------------------------------------- actions

\* app.js:306-339: the direct-URL branch, run to its return.
ChannelOtt(r, out) ==
    /\ ffmpeg' = [ffmpeg EXCEPT ![r] = out]
    /\ IF out = "threw"
       THEN /\ resp' = [resp EXCEPT ![r] = "500"]
            /\ onClose' = onClose
       ELSE /\ resp' = [resp EXCEPT ![r] = "stream"]
            /\ onClose' = [onClose EXCEPT ![r] = "ott"]
    /\ pc' = [pc EXCEPT ![r] = "returned"]
    /\ UNCHANGED <<CURRENT_STREAMS, watch>>

\* app.js:340-343 and 385-391: the device-backed branch up to the await, or
\* the rejection at capacity.
ChannelOta(r) ==
    /\ IF HasCapacity
       THEN /\ watch' = [watch EXCEPT ![r] = "sent"]
            /\ pc' = [pc EXCEPT ![r] = "awaitWatch"]
            /\ resp' = resp
       ELSE /\ resp' = [resp EXCEPT ![r] = "500"]
            /\ pc' = [pc EXCEPT ![r] = "returned"]
            /\ watch' = watch
    /\ UNCHANGED <<CURRENT_STREAMS, ffmpeg, onClose>>

\* app.js:298-398: GET /channel/{id} arrives and _channel runs to its first
\* await or to its return.  Requests are numbered in their order of arrival.
Channel(r, id) ==
    /\ serverUp
    /\ pc[r] = "idle"
    /\ \A q \in 1..(r - 1) : pc[q] # "idle"
    /\ chan' = [chan EXCEPT ![r] = id]
    /\ CASE Lookup(id) = "undefined" ->
              \* lines 393-397
              /\ resp' = [resp EXCEPT ![r] = "404"]
              /\ pc' = [pc EXCEPT ![r] = "returned"]
              /\ UNCHANGED <<CURRENT_STREAMS, watch, ffmpeg, onClose>>
         [] Lookup(id) = "ott" ->
              \E out \in SpawnOutcomes : ChannelOtt(r, out)
         [] Lookup(id) = "ota" ->
              ChannelOta(r)
         [] OTHER ->
              \* a truthy value whose type is neither "ott" nor "ota":
              \* neither branch of lines 306/340 is taken and the function
              \* ends at line 398 without touching res
              /\ pc' = [pc EXCEPT ![r] = "returned"]
              /\ UNCHANGED <<CURRENT_STREAMS, resp, watch, ffmpeg, onClose>>
    /\ UNCHANGED <<LINEUP_DATA, serverUp, client, closeEmitted, decs, simul>>
    /\ UNCHANGED outsideGateway

\* app.js:345-384: the continuation after the await, for a watch response
\* that arrived, run to its return.
OtaContinue(r, w, out) ==
    /\ watch' = [watch EXCEPT ![r] = w]
    /\ pc' = [pc EXCEPT ![r] = "returned"]
    /\ IF w = "unparsable"
       THEN \* JSON.parse throws at line 346, caught at line 377
            /\ resp' = [resp EXCEPT ![r] = "500"]
            /\ UNCHANGED <<CURRENT_STREAMS, ffmpeg, onClose>>
       ELSE /\ ffmpeg' = [ffmpeg EXCEPT ![r] = out]
            /\ IF out = "threw"
               THEN /\ resp' = [resp EXCEPT ![r] = "500"]
                    /\ UNCHANGED <<CURRENT_STREAMS, onClose>>
               ELSE /\ CURRENT_STREAMS' = CURRENT_STREAMS + 1
                    /\ resp' = [resp EXCEPT ![r] = "stream"]
                    /\ onClose' = [onClose EXCEPT ![r] = "ota"]
    /\ UNCHANGED serverUp

\* app.js:343 with part_000:2204: the awaited promise rejects.  The await is
\* outside the try of line 345, so _channel itself rejects.
OtaRejected(r, how) ==
    /\ watch' = [watch EXCEPT ![r] = "rejected"]
    /\ pc' = [pc EXCEPT ![r] = "returned"]
    /\ IF how = "handled"
       THEN /\ resp' = [resp EXCEPT ![r] = "500"]
            /\ serverUp' = serverUp
       ELSE /\ resp' = resp
            /\ serverUp' = FALSE
    /\ UNCHANGED <<CURRENT_STREAMS, ffmpeg, onClose>>

\* The device watch request of a suspended handler settles.
WatchResponse(r, w) ==
    /\ serverUp
    /\ pc[r] = "awaitWatch"
    /\ IF w = "rejected"
       THEN \E how \in RejectionOutcomes : OtaRejected(r, how)
       ELSE \E out \in SpawnOutcomes : OtaContinue(r, w, out)
    /\ simul' = (simul /\ \A q \in 1..(TUNER_COUNT + 1) :
                              q \in Reqs /\ pc[q] # "idle")
    /\ UNCHANGED <<LINEUP_DATA, chan, client, closeEmitted, decs>>
    /\ UNCHANGED outsideGateway

\* Mutant of CloseListener: the direct-URL listener decrements as well.
CloseListenerAlwaysDec(r) ==
    /\ CURRENT_STREAMS' = IF onClose[r] # "none" THEN CURRENT_STREAMS - 1
                          ELSE CURRENT_STREAMS
    /\ decs' = [decs EXCEPT ![r] = IF onClose[r] # "none" THEN @ + 1 ELSE @]
    /\ ffmpeg' = [ffmpeg EXCEPT ![r] = IF onClose[r] # "none" THEN Kill(@) ELSE @]

\* Mutant of CloseListener: line 369 is missing.
CloseListenerNoDec(r) ==
    /\ CURRENT_STREAMS' = CURRENT_STREAMS
    /\ decs' = decs
    /\ ffmpeg' = [ffmpeg EXCEPT ![r] = IF onClose[r] # "none" THEN Kill(@) ELSE @]

\* app.js:325-329 and 368-374: the listener the handler registered runs.  A
\* request with no listener (yet) runs nothing.
CloseListener(r) ==
    /\ CURRENT_STREAMS' = IF onClose[r] = "ota" THEN CURRENT_STREAMS - 1
                          ELSE CURRENT_STREAMS
    /\ decs' = [decs EXCEPT ![r] = IF onClose[r] = "ota" THEN @ + 1 ELSE @]
    /\ ffmpeg' = [ffmpeg EXCEPT ![r] = IF onClose[r] # "none" THEN Kill(@) ELSE @]

\* The client of a request that has not been answered with a complete
\* response closes its connection: req emits 'close'.
ClientDisconnect(r) ==
    /\ serverUp
    /\ pc[r] # "idle"
    /\ resp[r] \notin {"404", "500"}
    /\ ~closeEmitted[r]
    /\ client' = [client EXCEPT ![r] = "gone"]
    /\ closeEmitted' = [closeEmitted EXCEPT ![r] = TRUE]
    /\ CloseListener(r)
    /\ UNCHANGED <<LINEUP_DATA, serverUp, pc, chan, resp, watch, onClose, simul>>
    /\ UNCHANGED outsideGateway

\* The response of a streaming request has been ended by the pipe while the
\* client is still connected: runtimes that close the request object once
\* its response is finished emit 'close' on req now; the others never take
\* this step.
ReqCloseOnFinish(r) ==
    /\ serverUp
    /\ resp[r] = "ended"
    /\ ~closeEmitted[r]
    /\ closeEmitted' = [closeEmitted EXCEPT ![r] = TRUE]
    /\ CloseListener(r)
    /\ UNCHANGED <<LINEUP_DATA, serverUp, pc, chan, resp, watch, onClose,
                   client, simul>>
    /\ UNCHANGED outsideGateway

\* Mutant of FfmpegExit: an 'exit' listener that decrements, unguarded.
FfmpegExitReleases(r) ==
    /\ serverUp
    /\ ffmpeg[r] \in {"running", "sigint"}
    /\ ffmpeg' = [ffmpeg EXCEPT ![r] = "exited"]
    /\ resp' = [resp EXCEPT ![r] = IF @ = "stream" THEN "ended" ELSE @]
    /\ CURRENT_STREAMS' = IF onClose[r] = "ota" THEN CURRENT_STREAMS - 1
                          ELSE CURRENT_STREAMS
    /\ decs' = [decs EXCEPT ![r] = IF onClose[r] = "ota" THEN @ + 1 ELSE @]
    /\ UNCHANGED <<LINEUP_DATA, serverUp, pc, chan, watch, onClose,
                   client, closeEmitted, simul>>
    /\ UNCHANGED outsideGateway

\* app.js:319, 362: the child exits (by itself, or after the SIGINT); its
\* stdout ends and the pipe ends res.  The handler registers no listener on
\* the child's 'exit', so nothing else runs.
FfmpegExit(r) ==
    /\ serverUp
    /\ ffmpeg[r] \in {"running", "sigint"}
    /\ ffmpeg' = [ffmpeg EXCEPT ![r] = "exited"]
    /\ resp' = [resp EXCEPT ![r] = IF @ = "stream" THEN "ended" ELSE @]
    /\ UNCHANGED <<LINEUP_DATA, CURRENT_STREAMS, serverUp, pc, chan, watch,
                   onClose, client, closeEmitted, decs, simul>>
    /\ UNCHANGED outsideGateway

\* app.js:309, 348: a child that could not be started emits 'error'.  The
\* handler registers no 'error' listener on the child, so the event is an
\* uncaught exception and the process ends.
FfmpegError(r) ==
    /\ serverUp
    /\ ffmpeg[r] = "spawnfail"
    /\ ffmpeg' = [ffmpeg EXCEPT ![r] = "failed"]
    /\ serverUp' = FALSE
    /\ UNCHANGED <<LINEUP_DATA, CURRENT_STREAMS, pc, chan, resp, watch,
                   onClose, client, closeEmitted, decs, simul>>
    /\ UNCHANGED outsideGateway

Next ==
    \/ \E r \in Reqs, id \in ChannelIds : Channel(r, id)
    \/ \E r \in Reqs, w \in WatchOutcomes : WatchResponse(r, w)
    \/ \E r \in Reqs : ClientDisconnect(r)
    \/ \E r \in Reqs : ReqCloseOnFinish(r)
    \/ \E r \in Reqs : FfmpegExit(r)
    \/ \E r \in Reqs : FfmpegError(r)

TypeOK ==
    /\ CURRENT_STREAMS \in Int
    /\ serverUp \in BOOLEAN
    /\ pc \in [Reqs -> {"idle", "awaitWatch", "returned"}]
    /\ chan \in [Reqs -> ChannelIds \cup {""}]
    /\ resp \in [Reqs -> {"none", "stream", "ended", "404", "500"}]
    /\ watch \in [Reqs -> {"none", "sent", "ok", "unparsable", "rejected"}]
    /\ ffmpeg \in [Reqs -> {"none", "threw", "spawnfail", "failed",
                            "running", "sigint", "exited"}]
    /\ onClose \in [Reqs -> {"none", "ott", "ota"}]
    /\ client \in [Reqs -> {"open", "gone"}]
    /\ closeEmitted \in [Reqs -> BOOLEAN]
    /\ decs \in [Reqs -> Nat]
    /\ simul \in BOOLEAN

\* ------------------------------------------------------------ the Scheduler

\* part_000:1457  the polling period of setInterval, 24 * 60 * 60 * 1000 ms;
\* part_000:432  a configured interval is a number of days times this.
DayMs == 86400000

\* part_000:514-542  getRFC1123DateString prints hours, minutes and seconds:
\* a date string carries whole seconds, 1000 ms each.
SecMs == 1000

\* The clock runs for MaxDays days, and is also read SubMs milliseconds
\* into a day; at most MaxInflight executions of the task are in flight
\* together.
MaxDays == 1
SubMs == 600
MaxInflight == 2

\* Values of --interval / LINEUP_UPDATE_INTERVAL, in days (part_000:80,
\* 427-442): any number is accepted, zero included.
ConfigDays == {0, 1}

\* part_000:427-442  _confrim_interval for a numeric setting.
ConfirmInterval(days) == days * DayMs

\* The Scheduler instances startup creates over schedule_lineup.json: the
\* one of app.js:1255 or 1261, whose only reference app.js:1269 overwrites,
\* and the one of app.js:1269, which the global SCHEDULE keeps.
Insts == {"first", "SCHEDULE"}

\* What an execution of the lineup task can do (app.js:1164-1201): fetch and
\* parse the lineup; fail in the request or in JSON.parse, which the task's
\* own catch of app.js:1198 logs before it returns normally; or reject
\* (readCreds of app.js:1165 lies outside that try).  An instance whose task
\* field still holds the class's default (part_000:1402) runs that instead,
\* which does nothing ("noop").
TaskOutcomes == {"ok", "caught", "throws", "noop"}

\* What starts runTask: the eager check of scheduleNextRun (part_000:1450),
\* the daily timer (part_000:1453), the 'l' key (app.js:1311).
Triggers == {"eager", "poll", "manual"}

\* part_000:514-542  the date string of a time, as the count of whole
\* seconds it prints (the fraction is dropped).
RFC1123(t) == t \div SecMs

\* A nextCheck in the state file that is no date string (the file was
\* edited or damaged; FS.readJSON gives {} for a file that is no JSON, whose
\* nextCheck is undefined).
NotADate == 0 - 1

\* part_000:1439  the getTime() of an invalid Date
NaN == 0 - 1

\* part_000:1437, 1468  new Date(string).getTime()
ParseDate(str) == IF str = NotADate THEN NaN ELSE str * SecMs

\* part_000:1400-1408  an instance that does not exist (yet)
NoSched == [made |-> FALSE, interval |-> 0, nextCheck |-> 0, runAt |-> 0,
            polling |-> FALSE, fireAt |-> 0, cancels |-> 0,
            task |-> "default"]

\* No refresh of the lineup on record.
NoRefresh == [done |-> FALSE, end |-> 0, interval |-> 0]

SchedInit ==
    /\ now = 0
    /\ schedFile = [exists |-> FALSE, interval |-> 0, nextCheck |-> 0]
    /\ sched = [i \in Insts |-> NoSched]
    /\ boot = "off"
    /\ firstRun = TRUE
    /\ LINEUP_UPDATE_INTERVAL = 0
    /\ inflight = [i \in Insts |-> [t \in Triggers |-> 0]]
    /\ last = ""
    /\ lastOk = NoRefresh

\* Mutant of Constructed: the interval argument is kept over the state
\* file's.
ConstructedWithArgument(interval) ==
    LET nc == IF schedFile.exists THEN schedFile.nextCheck ELSE RFC1123(now)
    IN  [made |-> TRUE, interval |-> interval, nextCheck |-> nc,
         runAt |-> ParseDate(nc), polling |-> FALSE, fireAt |-> 0,
         cancels |-> 0,
         task |-> IF ParseDate(nc) = NaN THEN "default" ELSE "user"]

\* part_000:1413-1447  the constructor: the fields of the new instance.  An
\* existing state file overrides the interval argument.  With a nextCheck
\* that is no date the constructor returns at line 1441, before it stores
\* the task function (line 1446).
Constructed(interval) ==
    LET iv == IF schedFile.exists THEN schedFile.interval ELSE interval
        nc == IF schedFile.exists THEN schedFile.nextCheck ELSE RFC1123(now)
    IN  [made |-> TRUE, interval |-> iv, nextCheck |-> nc,
         runAt |-> ParseDate(nc), polling |-> FALSE, fireAt |-> 0,
         cancels |-> 0,
         task |-> IF ParseDate(nc) = NaN THEN "default" ELSE "user"]

\* part_000:1419-1428  the constructor writes the state file if none exists.
FileAfterConstruct(interval) ==
    IF schedFile.exists THEN schedFile
    ELSE [exists |-> TRUE, interval |-> interval, nextCheck |-> RFC1123(now)]

\* Mutant of Due: the comparison is strict.
DueStrict(s) == s.runAt # NaN /\ s.runAt - now < 0

\* part_000:1450, 1454  if (this.runAt.getTime() - JSDate.ct <= 0), which is
\* false of NaN
Due(s) == s.runAt # NaN /\ s.runAt - now <= 0

\* part_000:1453-1457  this.timeout = setInterval(..., one day)
Armed(s) == [s EXCEPT !.polling = TRUE, !.fireAt = now + DayMs]

\* Mutant of Cancelled: the timer is left running.
CancelledNoClear(s) == [s EXCEPT !.cancels = @ + 1]

\* part_000:1490-1494  cancel(): clearTimeout of the timer, if there is one.
\* (cancels is history: how often cancel() was called on the instance.)
Cancelled(s) == [s EXCEPT !.polling = FALSE, !.cancels = @ + 1]

\* Mutant of TaskReturned: the catch block finishes the run as well.
TaskReturnedAlways(out) == TRUE

\* part_000:1462-1463  await this.task() returns, rather than throwing into
\* the catch of line 1480.
TaskReturned(out) == out # "throws"

\* part_000:1465-1468  the instance after a run whose task returned
Advanced(s) ==
    [s EXCEPT !.nextCheck = RFC1123(now + s.interval),
              !.runAt = ParseDate(RFC1123(now + s.interval))]

\* part_000:1470-1475  the state file runTask writes after such a run
FileAfterRun(s) ==
    [exists |-> TRUE, interval |-> s.interval,
     nextCheck |-> RFC1123(now + s.interval)]

\* The number of executions of runTask suspended at part_000:1463.
InFlight ==
    LET of(i) == inflight[i]["eager"] + inflight[i]["poll"]
                   + inflight[i]["manual"]
    IN  of("first") + of("SCHEDULE")

\* part_000:1461-1463  runTask up to its await: the task starts.
StartRun(i, trig) ==
    /\ InFlight < MaxInflight
    /\ inflight' = [inflight EXCEPT ![i][trig] = @ + 1]

\* A behaviour presses 'x' at most MaxCancels times.
MaxCancels == 2

\* app.js:1255-1257, 1261-1263, 1269-1271: new Scheduler(...) followed by
\* await scheduleNextRun(), up to its first suspension: the eager check of
\* part_000:1450 either starts the task, and the timer is set once the run
\* is over, or sets the timer at once.  With a credential and a lineup file
\* in place only the instance of line 1273 is made.
Startup(i) ==
    /\ IF i = "first" THEN boot = "start" /\ firstRun
       ELSE boot = "main" \/ (boot = "start" /\ ~firstRun)
    /\ schedFile' = FileAfterConstruct(LINEUP_UPDATE_INTERVAL)
    /\ LET s == Constructed(LINEUP_UPDATE_INTERVAL)
       IN  IF Due(s)
           THEN /\ StartRun(i, "eager")
                /\ sched' = [sched EXCEPT ![i] = s]
                /\ boot' = IF i = "first" THEN "firstEager" ELSE "mainEager"
           ELSE /\ sched' = [sched EXCEPT ![i] = Armed(s)]
                /\ boot' = IF i = "first" THEN "main" ELSE "ready"
                /\ inflight' = inflight
    /\ UNCHANGED <<now, firstRun, LINEUP_UPDATE_INTERVAL, last, lastOk>>
    /\ UNCHANGED outsideSched

\* part_000:1463-1484  runTask after its await: the task of run k is over.
\* A run started by the eager check then returns into scheduleNextRun, which
\* sets the timer (part_000:1453), and startup goes on.
RunTaskEnd(i, trig, out) ==
    /\ inflight[i][trig] > 0
    /\ (out = "noop") = (sched[i].task = "default")
    /\ trig = "eager" => boot \in {"firstEager", "mainEager"}
    /\ LET s == sched[i]
           t == IF TaskReturned(out) THEN Advanced(s) ELSE s
       IN  /\ schedFile' = IF TaskReturned(out) THEN FileAfterRun(s)
                           ELSE schedFile
           /\ IF trig = "eager"
              THEN /\ sched' = [sched EXCEPT ![i] = Armed(t)]
                   /\ boot' = IF i = "first" THEN "main" ELSE "ready"
              ELSE /\ sched' = [sched EXCEPT ![i] = t]
                   /\ boot' = boot
           /\ last' = out
           /\ lastOk' = IF out = "ok" /\ trig # "manual"
                        THEN [done |-> TRUE, end |-> now,
                              interval |-> s.interval]
                        ELSE lastOk
    /\ inflight' = [inflight EXCEPT ![i][trig] = @ - 1]
    /\ UNCHANGED <<now, firstRun, LINEUP_UPDATE_INTERVAL>>
    /\ UNCHANGED outsideSched

\* part_000:1453-1457  the timer of an instance fires: the daily poll.
Poll(i) ==
    /\ boot # "main"
    /\ sched[i].polling
    /\ now >= sched[i].fireAt
    /\ sched' = [sched EXCEPT ![i].fireAt = now + DayMs]
    /\ IF Due(sched[i]) THEN StartRun(i, "poll") ELSE inflight' = inflight
    /\ UNCHANGED <<now, schedFile, boot, firstRun, LINEUP_UPDATE_INTERVAL,
                   last, lastOk>>
    /\ UNCHANGED outsideSched

\* app.js:1309-1316  the 'l' key: a forced run of SCHEDULE.
KeyL ==
    /\ boot \in {"ready", "exiting"}
    /\ StartRun("SCHEDULE", "manual")
    /\ UNCHANGED <<now, schedFile, sched, boot, firstRun,
                   LINEUP_UPDATE_INTERVAL, last, lastOk>>
    /\ UNCHANGED outsideSched

\* app.js:1298-1308  the 'x' key: SCHEDULE.cancel(), and the process is to
\* exit two seconds later.  The handler stays registered until then.
KeyX ==
    /\ boot \in {"ready", "exiting"}
    /\ sched["SCHEDULE"].cancels < MaxCancels
    /\ sched' = [sched EXCEPT !["SCHEDULE"] = Cancelled(@)]
    /\ boot' = "exiting"
    /\ UNCHANGED <<now, schedFile, firstRun, LINEUP_UPDATE_INTERVAL,
                   inflight, last, lastOk>>
    /\ UNCHANGED outsideSched

\* The process is started, after the one before it, if any, has ended
\* (process.exit of app.js:1307, a signal, a crash): the instances, their
\* timers and the runs in flight are gone, the state file stays.  The new
\* process reads its configuration (part_000:447) and finds its credential
\* and lineup files, or not (app.js:1247, 1258).
ProcessStart(fr, days) ==
    /\ boot # "start"
    /\ sched' = [i \in Insts |-> NoSched]
    /\ inflight' = [i \in Insts |-> [t \in Triggers |-> 0]]
    /\ boot' = "start"
    /\ firstRun' = fr
    /\ LINEUP_UPDATE_INTERVAL' = ConfirmInterval(days)
    /\ UNCHANGED <<now, schedFile, last, lastOk>>
    /\ UNCHANGED outsideSched

\* The state file is edited or damaged while the process is down, before
\* the next one makes its first instance: its nextCheck is no date string
\* any more.  (An instance reads the file in its constructor only.)
DamageSchedFile ==
    /\ boot = "start"
    /\ schedFile.exists
    /\ schedFile.nextCheck # NotADate
    /\ schedFile' = [schedFile EXCEPT !.nextCheck = NotADate]
    /\ UNCHANGED <<now, sched, boot, firstRun, LINEUP_UPDATE_INTERVAL,
                   inflight, last, lastOk>>
    /\ UNCHANGED outsideSched

\* part_000:480  time passes: by a fraction of a second (within the first
\* second of a day), or by a day.  No time to speak of passes between the
\* two constructions of startup, and less than two seconds between 'x' and
\* the exit.
Tick(d) ==
    /\ boot # "main"
    /\ boot = "exiting" => d = SubMs
    /\ IF d = DayMs THEN now \div DayMs < MaxDays
       ELSE (now % DayMs) + d < SecMs
    /\ now' = now + d
    /\ UNCHANGED <<schedFile, sched, boot, firstRun, LINEUP_UPDATE_INTERVAL,
                   inflight, last, lastOk>>
    /\ UNCHANGED outsideSched

SchedNext ==
    \/ \E i \in Insts : Startup(i)
    \/ \E i \in Insts, trig \in Triggers, out \in TaskOutcomes :
          RunTaskEnd(i, trig, out)
    \/ \E i \in Insts : Poll(i)
    \/ KeyL
    \/ KeyX
    \/ \E fr \in BOOLEAN, days \in ConfigDays : ProcessStart(fr, days)
    \/ \E d \in {SubMs, DayMs} : Tick(d)
    \/ DamageSchedFile

\* ----------------------------------------------------------- the credentials

\* What the credential file can hold, by what Encryption.decrypt makes of
\* it (app.js:763-780): the JSON of a complete record; the JSON of a record
\* without tuners; bytes that do not start with 0x7B; bytes that start with
\* 0x7B and are no JSON; or too little to give any plaintext, so that
\* decrypt throws or returns null and line 768 throws.
CredKinds == {"good", "notuners", "lead", "json", "short"}

\* The plaintexts readCreds takes for damage (app.js:768, 780).
Corrupt == {"lead", "json"}

\* What the server-info request of setup can bring (app.js:731-748): a body
\* with model.tuners; a JSON body without it (null, {}, an error object); a
\* body JSON.parse rejects; or a rejected promise (fetch fails,
\* part_000:2204).
HandshakeOutcomes == {"ok", "notuners", "unparsable", "unreachable"}

\* app.js:1205, 1236  the command line: serve (neither flag), --lineup,
\* --creds.
Modes == {"serve", "lineup", "creds"}

CredsInit ==
    /\ credsFile = "none"
    /\ CREDS_DATA = "undefined"
    /\ tunerSource = "default"
    /\ cpc = "off"
    /\ tty = TRUE
    /\ mode = "serve"
    /\ found = ""
    /\ unlinked = "no"
    /\ exitCalls = 0
    /\ handshake = ""

\* Mutant of Unlink: the file is never removed.
UnlinkSkipped(file, canDelete) == file

\* app.js:772, 787  fs.unlinkSync(CREDS_FILE): the file is gone, or the call
\* throws (read-only folder) and the file stays.
Unlink(file, canDelete) == IF canDelete THEN "none" ELSE file

\* part_000:1171-1201  exit(): on a terminal it waits for a key and never
\* returns; without one process.stdin.setRawMode is undefined, the promise
\* rejects, and so does every exit() a catch block on the way out calls
\* (handlers of them); the rejection then leaves the startup function
\* unhandled and ends the process.
Exit(handlers) ==
    IF tty
    THEN /\ cpc' = "exit"
         /\ exitCalls' = exitCalls + 1
    ELSE /\ cpc' = "dead"
         /\ exitCalls' = exitCalls + handlers

\* app.js:1204-1253, 1266  a process starts (ending the one before).
\* Without --creds a missing credential file sends it through setup (lines
\* 1208-1214, 1247-1253); otherwise the next thing to touch credentials is
\* readCreds, called by startup (line 1267) or by the lineup task that
\* --lineup and --creds run (lines 1228, 1243 with 1165).
Launch(terminal, m) ==
    /\ cpc' = IF credsFile = "none" /\ m # "creds" THEN "setup" ELSE "read"
    /\ tty' = terminal
    /\ mode' = m
    /\ CREDS_DATA' = "undefined"
    /\ tunerSource' = "default"
    /\ found' = ""
    /\ unlinked' = "no"
    /\ exitCalls' = 0
    /\ handshake' = ""
    /\ UNCHANGED credsFile
    /\ UNCHANGED outsideCreds

\* app.js:731-759  reqCreds from the server-info request on.  The await of
\* line 731 is outside the try, and so is the call of line 1253: a rejection
\* ends the process.  A body that parses passes the try whatever it holds,
\* and the record is stored and written.
ServerInfo(out) ==
    /\ cpc = "setup"
    /\ handshake' = out
    /\ CASE out = "unreachable" ->
              /\ cpc' = "dead"
              /\ UNCHANGED <<credsFile, CREDS_DATA, tunerSource, exitCalls>>
         [] out = "unparsable" ->
              /\ Exit(1)
              /\ UNCHANGED <<credsFile, CREDS_DATA, tunerSource>>
         [] OTHER ->
              /\ tunerSource' = IF out = "ok" THEN "device" ELSE tunerSource
              /\ CREDS_DATA' = IF out = "ok" THEN "good" ELSE "notuners"
              /\ credsFile' = IF out = "ok" THEN "good" ELSE "notuners"
              /\ cpc' = "read"
              /\ UNCHANGED exitCalls
    /\ UNCHANGED <<tty, mode, found, unlinked>>
    /\ UNCHANGED outsideCreds

\* After the credentials are loaded: the server runs, or, under --lineup
\* and --creds, the task is done and line 1235 or 1245 calls exit().
Loaded ==
    IF mode = "serve"
    THEN cpc' = "loaded" /\ exitCalls' = exitCalls
    ELSE Exit(1)

\* app.js:762-800  readCreds, with what its caller does when it throws
\* (the catch of line 1274; under --lineup and --creds the catch of runTask,
\* then exit() at line 1235 or 1245).
ReadCreds(canDelete) ==
    /\ cpc = "read"
    /\ IF CREDS_DATA # "undefined"
       THEN \* line 797: already loaded
            /\ Loaded
            /\ UNCHANGED <<credsFile, CREDS_DATA, tunerSource, found,
                           unlinked>>
       ELSE IF credsFile \in Corrupt
       THEN \* lines 768-778, 783-793: delete, then exit; a failed delete
            \* goes to the inner catch, which calls exit as well
            /\ found' = credsFile
            /\ credsFile' = Unlink(credsFile, canDelete)
            /\ unlinked' = IF canDelete THEN "ok" ELSE "failed"
            /\ Exit(IF canDelete THEN 3 ELSE 2)
            /\ UNCHANGED <<CREDS_DATA, tunerSource>>
       ELSE IF credsFile \in {"short", "none"}
       THEN \* part_000:1903-1907, line 766 or line 768 throws; the
            \* caller's catch, or the line after it, calls exit
            /\ found' = credsFile
            /\ IF credsFile = "none"
               THEN \* FS.readFile calls exit() without awaiting it, then
                    \* readFileSync throws
                    /\ cpc' = IF tty THEN "exit" ELSE "dead"
                    /\ exitCalls' = exitCalls + 2
               ELSE Exit(1)
            /\ UNCHANGED <<credsFile, CREDS_DATA, tunerSource, unlinked>>
       ELSE \* lines 781-783
            /\ CREDS_DATA' = credsFile
            /\ tunerSource' = IF credsFile = "good" THEN "file"
                              ELSE "undefined"
            /\ Loaded
            /\ UNCHANGED <<credsFile, found, unlinked>>
    /\ UNCHANGED <<tty, mode, handshake>>
    /\ UNCHANGED outsideCreds

\* part_000:1180-1189  a key is pressed while exit() waits: process.exit.
ExitKey ==
    /\ cpc = "exit"
    /\ cpc' = "dead"
    /\ UNCHANGED <<credsFile, CREDS_DATA, tunerSource, tty, mode, found,
                   unlinked, exitCalls, handshake>>
    /\ UNCHANGED outsideCreds

\* The credential file is damaged on disk while no process reads it.
Damage(kind) ==
    /\ cpc \in {"off", "loaded", "exit", "dead"}
    /\ credsFile \notin {"none", kind}
    /\ credsFile' = kind
    /\ UNCHANGED <<CREDS_DATA, tunerSource, cpc, tty, mode, found, unlinked,
                   exitCalls, handshake>>
    /\ UNCHANGED outsideCreds

CredsNext ==
    \/ \E terminal \in BOOLEAN, m \in Modes : Launch(terminal, m)
    \/ \E out \in HandshakeOutcomes : ServerInfo(out)
    \/ \E canDelete \in BOOLEAN : ReadCreds(canDelete)
    \/ ExitKey
    \/ \E kind \in Corrupt \cup {"short"} : Damage(kind)

\* ------------------------------------------------------------ the envelope

\* part_000:2265-2267  the embedded constant, the bytes Buffer.from(RSA,
\* "hex") gives (process.env.RSA unset).
RSA == <<
    48, 129, 137, 2, 129, 129, 0, 181, 7, 170, 172, 107, 107, 27,
    165, 206, 2, 184, 81, 35, 129, 21, 158, 207, 217, 205, 50, 214,
    238, 173, 202, 255, 69, 158, 167, 226, 33, 8, 25, 194, 217, 21,
    244, 55, 227, 8, 113, 221, 161, 144, 241, 155, 136, 152, 3, 142,
    30, 120, 99, 162, 22, 153, 205, 165, 188, 108, 132, 196, 157, 147,
    90, 250, 255, 225, 210, 241, 107, 12, 102, 45, 200, 148, 29, 135,
    81, 251, 122, 54, 172, 34, 245, 152, 14, 223, 146, 252, 247, 117,
    111, 198, 252, 253, 150, 122, 115, 48, 60, 124, 215, 3, 12, 104,
    23, 153, 193, 142, 10, 47, 45, 43, 105, 201, 247, 189, 138, 222,
    5, 115, 27, 177, 121, 243, 84, 240, 233, 2, 3, 1, 0, 1>>

\* part_000:2269  Buffer.alloc(32, 0): the length of the key
KeyLen == 32

\* part_000:2284  Buffer.alloc(16, 0): the length of the IV, which is the
\* block length of aes-256-cbc
BlockLen == 16

\* part_000:2271, 2279  readUInt32LE / writeUInt32LE: bytes in a word
WordLen == 4

\* Plaintexts of up to MaxBlocks blocks are encrypted.
MaxBlocks == 2

\* The bytes a seed is made of, and the first byte of a plaintext.
SeedBytes == {0, 1, 255}
FirstBytes == {123, 200}

\* A 32-bit number is the tuple of its four bytes, most significant first.
Words == [1..WordLen -> SeedBytes]

\* The plaintexts: every length up to MaxBlocks blocks, the bytes counting
\* up from the first.
Plaintexts ==
    {[p \in 1..n |-> (b + p - 1) % 256] :
        n \in 0..(MaxBlocks * BlockLen), b \in FirstBytes}

RECURSIVE XorBits(_, _, _)
\* a ^ b on numbers of n bits
XorBits(a, b, n) ==
    IF n = 0 THEN 0
    ELSE ((a + b) % 2) + 2 * XorBits(a \div 2, b \div 2, n - 1)

\* a ^ b on 32-bit numbers
Xor32(v, w) == [j \in 1..WordLen |-> XorBits(v[j], w[j], 8)]

\* part_000:2271, 2311  buf.readUInt32LE(off) (readInt32LE gives the same
\* 32 bits): the byte at the lowest offset is the least significant.
ReadUInt32LE(buf, off) == [j \in 1..WordLen |-> buf[off + WordLen + 1 - j]]

\* part_000:2279, 2285  writeUInt32LE(value): the four bytes written
WriteUInt32LE(v) == [j \in 1..WordLen |-> v[WordLen + 1 - j]]

\* part_000:2270-2275  one round of the loop that folds the constant into
\* the key buffer, from word i on.
RECURSIVE Fold(_, _)
Fold(keyBuff, i) ==
    IF i >= Len(RSA) \div WordLen THEN keyBuff
    ELSE LET el1 == ReadUInt32LE(RSA, i * WordLen)
             inner == i % (KeyLen \div WordLen)
             num == ReadUInt32LE(keyBuff, inner * WordLen)
             out == WriteUInt32LE(Xor32(num, el1))
         IN  Fold([p \in 1..KeyLen |->
                     IF (p - 1) \div WordLen = inner
                     THEN out[((p - 1) % WordLen) + 1]
                     ELSE keyBuff[p]], i + 1)

\* part_000:2268-2275, 2303-2310  the key both crypt and decrypt derive
KeyBuff == Fold([p \in 1..KeyLen |-> 0], 0)

\* part_000:1990-2032  new MersenneTwister(seed): _init_seed keeps the 32
\* bits of the seed (s >>> 0); the generator is known by them.
MersenneTwister(seed) == [seed |-> seed]

\* part_000:2071-2104  the n-th random_int() of a generator: a 32-bit number
\* that the seed and n determine.
RandomInt(gen, n) == [seed |-> gen.seed, draw |-> n]

\* part_000:2282, 2314  pull & 15: four bits of such a number.
Low4(r) == (r.seed[1] + r.seed[2] + r.seed[3] + r.seed[4] + r.draw) % 16

\* part_000:2280-2285, 2312-2317  the IV: a generator seeded with
\* seed ^ 0xffffffff, one draw for the count, (pull & 15) + 1 draws
\* dropped, and the next four written into the IV buffer.
IvBuff(seed) ==
    LET gen == MersenneTwister(Xor32(seed, [j \in 1..WordLen |-> 255]))
        amount == Low4(RandomInt(gen, 1)) + 1
    IN  [j \in 1..(BlockLen \div WordLen) |->
            RandomInt(gen, 1 + amount + j)]

\* part_000:2287  setAutoPadding(true): PKCS#7, k bytes of value k up to
\* the next block boundary, a whole block when the length is a multiple.
Padded(bytes) ==
    LET k == BlockLen - (Len(bytes) % BlockLen)
    IN  bytes \o [j \in 1..k |-> k]

\* part_000:2286-2289  aes-256-cbc encryption: block i is the cipher, under
\* the key, of plaintext block i chained to block i - 1 (the IV for the
\* first).  A block is known by what went into it.
CbcEncrypt(key, iv, bytes) ==
    LET c[i \in 0..(Len(bytes) \div BlockLen)] ==
          IF i = 0 THEN <<>>
          ELSE Append(c[i - 1],
                      [key |-> key,
                       prev |-> IF i = 1 THEN [iv |-> iv]
                                ELSE [iv |-> <<>>, block |-> c[i - 1][i - 1]],
                       data |-> SubSeq(bytes, (i - 1) * BlockLen + 1,
                                       i * BlockLen)])
    IN  c[Len(bytes) \div BlockLen]

\* What deciphering a block under another key or chaining gives: bytes that
\* are not the plaintext (and end in no padding).
Scrambled == [j \in 1..BlockLen |-> 0]

\* part_000:2318-2320  aes-256-cbc decryption of block i of blocks
CbcDecryptBlock(key, iv, blocks, i) ==
    LET prev == IF i = 1 THEN [iv |-> iv]
                ELSE [iv |-> <<>>, block |-> blocks[i - 1]]
    IN  IF blocks[i].key = key /\ blocks[i].prev = prev
        THEN blocks[i].data ELSE Scrambled

\* The last block ends in PKCS#7 padding.
PaddingOk(block) ==
    /\ block[BlockLen] \in 1..BlockLen
    /\ \A j \in (BlockLen + 1 - block[BlockLen])..BlockLen :
          block[j] = block[BlockLen]

RECURSIVE Flat(_)
\* Buffer.concat of a sequence of byte sequences
Flat(seqs) == IF seqs = <<>> THEN <<>> ELSE Head(seqs) \o Flat(Tail(seqs))

\* part_000:2320-2321  what the decipher stream holds after write() and
\* end(): every block but the last, then the last without its padding; when
\* the padding is bad final() fails and the last block is never pushed.
Deciphered(key, iv, blocks) ==
    LET n == Len(blocks)
        p == [i \in 1..n |-> CbcDecryptBlock(key, iv, blocks, i)]
    IN  IF n = 0 THEN <<>>
        ELSE Flat(SubSeq(p, 1, n - 1)) \o
             (IF PaddingOk(p[n])
              THEN SubSeq(p[n], 1, BlockLen - p[n][BlockLen])
              ELSE <<>>)

\* part_000:2290, 2322  stream.read(): the buffered bytes, or null when
\* nothing is buffered.
Read(buffered) == [null |-> buffered = <<>>, bytes |-> buffered]

\* part_000:2264-2292  Encryption.crypt, for the seed the time-seeded
\* generator of line 2276 gave: Buffer.concat([seedBuff, cipher.read()]).
Crypt(creds, seed) ==
    WriteUInt32LE(seed) \o CbcEncrypt(KeyBuff, IvBuff(seed), Padded(creds))

\* part_000:2311  the seed decrypt reads from the envelope
SeedOf(creds) == ReadUInt32LE(creds, 0)

\* part_000:2299-2323  Encryption.decrypt.  (One element of the envelope
\* after the seed is one cipher block.)
Decrypt(creds) ==
    Read(Deciphered(KeyBuff, IvBuff(SeedOf(creds)),
                    SubSeq(creds, WordLen + 1, Len(creds))))

CipherInit ==
    /\ cstep = "idle"
    /\ plain = <<>>
    /\ envelope = <<>>
    /\ ivC = <<>>
    /\ ivD = <<>>
    /\ recovered = Read(<<>>)

\* Encryption.crypt is called with a plaintext; the generator of line 2276
\* gives some seed.
DoCrypt(x, seed) ==
    /\ cstep = "idle"
    /\ cstep' = "crypted"
    /\ plain' = x
    /\ envelope' = Crypt(x, seed)
    /\ ivC' = IvBuff(seed)
    /\ UNCHANGED <<ivD, recovered>>
    /\ UNCHANGED outsideCipher

\* Encryption.decrypt is called with the envelope.
DoDecrypt ==
    /\ cstep = "crypted"
    /\ cstep' = "decrypted"
    /\ recovered' = Decrypt(envelope)
    /\ ivD' = IvBuff(SeedOf(envelope))
    /\ UNCHANGED <<plain, envelope, ivC>>
    /\ UNCHANGED outsideCipher

\* The next plaintext.
Forget ==
    /\ cstep = "decrypted"
    /\ cstep' = "idle"
    /\ plain' = <<>>
    /\ envelope' = <<>>
    /\ ivC' = <<>>
    /\ ivD' = <<>>
    /\ recovered' = Read(<<>>)
    /\ UNCHANGED outsideCipher

CipherNext ==
    \/ \E x \in Plaintexts, seed \in Words : DoCrypt(x, seed)
    \/ DoDecrypt
    \/ Forget

\* ------------------------------------------------------ the device requests

\* Requests in flight at one time.
MaxSent == 2

\* Seconds the clock runs.
MaxWall == 2

\* part_000:2169, 2171  the keys (process.env does not override them)
HashKey == "6l8jU5N43cEilqItmT3U2M2PFM3qPziilXqau9ys"
DeviceKey == "ljpg6ZkwShVv8aI12E2LP55Ep8vq1uYDPvX0DdTB"

\* app.js:343, 731  CREDS_DATA.device.url / masterCreds.device.url: the
\* address of the device, with or without a path of its own.
Hosts == {[origin |-> "http://192.168.1.10:8887", pathname |-> <<>>],
          [origin |-> "http://tablo.local:8887", pathname |-> <<"api">>]}

\* app.js:343, 731  CREDS_DATA.UUID
UUIDs == {"uuid-a", "uuid-b"}

\* app.js:301-341  the channel ids of device-backed lineup entries
WatchIds == {"CH1", "CH2"}

\* app.js:343  `/guide/channels/${channelId}/watch`, as its segments
WatchPath(channelId) == <<"guide", "channels", channelId, "watch">>

\* app.js:731  `/server/info`
InfoPath == <<"server", "info">>

\* Buffer.from(string) and Hash.update(string): the UTF-8 bytes of a text
BufferFrom(text) == [utf8 |-> text]

\* part_000:2165-2166  createHash("md5").update(msg).digest('hex')
Md5Hex(text) == [md5 |-> BufferFrom(text)]

\* part_000:2170  createHmac("md5", key).update(full_str).digest('hex')
HmacMd5Hex(key, text) == [key |-> key, over |-> text]

\* part_000:2163-2173  makeDeviceAuth.  full_str is known by its four
\* lines; the third is the digest of msg, or empty for an empty msg.
MakeDeviceAuth(method, url, msg, date) ==
    LET digest == IF msg # <<>> THEN [empty |-> FALSE, hex |-> Md5Hex(msg)]
                  ELSE [empty |-> TRUE, hex |-> Md5Hex(<<>>)]
        full_str == [method |-> method, url |-> url, msg |-> digest,
                     date |-> date]
    IN  [scheme |-> "tablo", device |-> DeviceKey,
         hmac |-> HmacMd5Hex(HashKey, full_str)]

\* part_000:2189-2191, 2205  new URL(path, host) with the search of empty
\* params, then toString(): path is absolute and takes the place of the
\* base's own path.
Url(path, host) == [origin |-> host.origin, pathname |-> path, search |-> <<>>]

\* part_000:2232  the headers reqTabloDevice starts from; a header that is
\* not set is "" (-1 for the length).
NoHeaders ==
    [ContentType |-> "", Connection |-> "", Date |-> -1, Accept |-> "",
     UserAgent |-> "", ContentLength |-> -1,
     Authorization |-> [scheme |-> "", device |-> "",
                        hmac |-> HmacMd5Hex("", <<>>)]]

\* part_000:2186-2220  makeTabloRequest up to the call of fetch, with the
\* clock at t: the call of makeDeviceAuth (auth) and the call of fetch.
MakeTabloRequest(method, host, path, msg, headers, t) ==
    LET date == RFC1123(t)
        auth == MakeDeviceAuth(method, path, msg, date)
        hasBody == method = "POST" /\ msg # <<>>
        body == IF hasBody THEN BufferFrom(msg) ELSE BufferFrom(<<>>)
    IN  [auth |-> [method |-> method, url |-> path, msg |-> msg,
                   date |-> date, token |-> auth],
         fetch |-> [url |-> Url(path, host),
                    method |-> method,
                    headers |-> [headers EXCEPT
                        !.Connection = "keep-alive",
                        !.Date = date,
                        !.Accept = "*/*",
                        !.UserAgent =
                            "Tablo-FAST/1.7.0 (Mobile; iPhone; iOS 18.4)",
                        !.ContentLength =
                            IF hasBody THEN Len(body.utf8) ELSE @,
                        !.Authorization = auth],
                    body |-> [sent |-> hasBody, bytes |-> body]]]

\* part_000:2236-2252  dataIn of a POST, by its members
DataIn(UUID) ==
    <<"bandwidth", "null", "device_id", UUID, "extra", "platform", "ios">>

\* JSON.stringify of an object with these members
JsonStringify(members) == <<"{">> \o members \o <<"}">>

\* Mutant of Msg: the object is serialised whatever the method.
MsgAlways(method, UUID) ==
    JsonStringify(IF method = "POST" THEN DataIn(UUID) ELSE <<>>)

\* part_000:2254  method == "POST" ? JSON.stringify(dataIn) : ""
Msg(method, UUID) ==
    IF method = "POST" THEN JsonStringify(DataIn(UUID)) ELSE <<>>

\* part_000:2231-2255  reqTabloDevice up to the call of fetch
ReqTabloDevice(method, host, path, UUID, t) ==
    MakeTabloRequest(method, host, path, Msg(method, UUID),
        IF method = "POST"
        THEN [NoHeaders EXCEPT
                 !.ContentType = "application/x-www-form-urlencoded"]
        ELSE NoHeaders,
        t)

SignInit ==
    /\ wall = 0
    /\ deviceReqs = <<>>

\* app.js:343  _channel asks the device to tune a channel.
WatchRequest(channelId, host, UUID) ==
    /\ Len(deviceReqs) < MaxSent
    /\ deviceReqs' = Append(deviceReqs,
           ReqTabloDevice("POST", host, WatchPath(channelId), UUID, wall))
    /\ UNCHANGED wall
    /\ UNCHANGED outsideSign

\* app.js:731  reqCreds asks the device for its server info.
InfoRequest(host, UUID) ==
    /\ Len(deviceReqs) < MaxSent
    /\ deviceReqs' = Append(deviceReqs,
           ReqTabloDevice("GET", host, InfoPath, UUID, wall))
    /\ UNCHANGED wall
    /\ UNCHANGED outsideSign

\* part_000:2204-2219  the fetch of the oldest request settles.
Settle ==
    /\ deviceReqs # <<>>
    /\ deviceReqs' = Tail(deviceReqs)
    /\ UNCHANGED wall
    /\ UNCHANGED outsideSign

\* Time passes.
WallTick ==
    /\ wall + SubMs <= MaxWall * SecMs
    /\ wall' = wall + SubMs
    /\ UNCHANGED deviceReqs
    /\ UNCHANGED outsideSign

SignNext ==
    \/ \E id \in WatchIds, host \in Hosts, u \in UUIDs :
          WatchRequest(id, host, u)
    \/ \E host \in Hosts, u \in UUIDs : InfoRequest(host, u)
    \/ Settle
    \/ WallTick

\* ------------------------------------------------------ the generator

\* part_000:1992  this.N = 624: the words of the state vector
N == 624

\* part_000:1993  this.M = 397
M == 397

\* Outputs drawn from one generator.
MaxDraws == 1000

\* part_000:2023  s & 0xffff0000, s & 0x0000ffff: a 32-bit number is the
\* pair of its 16-bit halves, the upper first; a half is below 2^16.
HalfMod == 65536

\* part_000:1994  MATRIX_A = 0x9908b0df
MATRIX_A == <<39176, 45279>>

\* part_000:1995  UPPER_MASK = 0x80000000
UPPER_MASK == <<32768, 0>>

\* part_000:1996  LOWER_MASK = 0x7fffffff
LOWER_MASK == <<32767, 65535>>

\* part_000:2023  the multiplier 1812433253 (0x6c078965)
Multiplier == <<27655, 35173>>

\* part_000:2099-2100  the tempering masks 0x9d2c5680 and 0xefc60000
MaskB == <<40236, 22144>>
MaskC == <<61382, 0>>

\* The seeds a generator is made with: the default seed of line 2079, and
\* numbers with the top bit or every bit set, as seed ^ 0xffffffff gives.
Seeds == {<<0, 5489>>, <<65535, 65535>>}

RECURSIVE AndBits(_, _, _)
\* a & b on numbers of n bits
AndBits(a, b, n) ==
    IF n = 0 THEN 0
    ELSE ((a % 2) * (b % 2)) + 2 * AndBits(a \div 2, b \div 2, n - 1)

\* v ^ w, v & w and v | w on 32-bit numbers.  (In JavaScript the result is
\* a signed number; its 32 bits are the same.)
XorW(v, w) == <<XorBits(v[1], w[1], 16), XorBits(v[2], w[2], 16)>>
AndW(v, w) == <<AndBits(v[1], w[1], 16), AndBits(v[2], w[2], 16)>>
OrW(v, w) == <<XorBits(v[1], w[1], 16) + AndBits(v[1], w[1], 16),
               XorBits(v[2], w[2], 16) + AndBits(v[2], w[2], 16)>>

RECURSIVE Pow2(_)
Pow2(k) == IF k = 0 THEN 1 ELSE 2 * Pow2(k - 1)

\* v >>> k, for 0 < k < 32
ShiftRight(v, k) ==
    IF k >= 16 THEN <<0, v[1] \div Pow2(k - 16)>>
    ELSE <<v[1] \div Pow2(k),
           (v[2] \div Pow2(k)) + (v[1] % Pow2(k)) * Pow2(16 - k)>>

\* v << k, for 0 < k < 16: the bits shifted past the top are lost
ShiftLeft(v, k) ==
    <<((v[1] % Pow2(16 - k)) * Pow2(k)) + (v[2] \div Pow2(16 - k)),
      (v[2] % Pow2(16 - k)) * Pow2(k)>>

\* The sum of 32-bit numbers, modulo 2^32 (x >>> 0 of an exact sum)
AddW(v, w) ==
    <<(v[1] + w[1] + ((v[2] + w[2]) \div HalfMod)) % HalfMod,
      (v[2] + w[2]) % HalfMod>>

\* The exact product of two 16-bit numbers, as a 32-bit number.
Mul16(a, b) ==
    LET p0 == (a % 256) * b
        p1 == (a \div 256) * b
        low == ((p1 % 256) * 256) + p0
    IN  <<(p1 \div 256) + (low \div HalfMod), low % HalfMod>>

\* part_000:2023-2029  the next word of _init_seed from s and mti:
\*   (((((s & 0xffff0000) >>> 16) * 1812433253) << 16)
\*        + (s & 0x0000ffff) * 1812433253) + mti,  then >>>= 0.
\* Both products are below 2^53 and exact; << 16 keeps the low 16 bits of
\* the first as the upper half; the sum is taken modulo 2^32.
InitWord(s, i) ==
    LET upper == <<Mul16(s[1], Multiplier[2])[2], 0>>
        lower == AddW(Mul16(s[2], Multiplier[2]),
                      <<Mul16(s[2], Multiplier[1])[2], 0>>)
    IN  AddW(AddW(upper, lower), <<i \div HalfMod, i % HalfMod>>)

\* part_000:2022  s = mt[mti - 1] ^ (mt[mti - 1] >>> 30)
InitS(prev) == XorW(prev, ShiftRight(prev, 30))

\* part_000:2073  mag01[y & 0x1]
Mag01(y) == IF y[2] % 2 = 1 THEN MATRIX_A ELSE <<0, 0>>

\* part_000:2082-2083  one word of the regeneration: y from the upper bit
\* of a and the lower bits of b, then  far ^ (y >>> 1) ^ mag01[y & 0x1]
Twisted(a, b, far) ==
    LET y == OrW(AndW(a, UPPER_MASK), AndW(b, LOWER_MASK))
    IN  XorW(XorW(far, ShiftRight(y, 1)), Mag01(y))

\* Mutant of Tempering: the second step shifts by 8.
TemperingShift8(y0) ==
    LET y1 == XorW(y0, ShiftRight(y0, 11))
        y2 == XorW(y1, AndW(ShiftLeft(y1, 8), MaskB))
        y3 == XorW(y2, AndW(ShiftLeft(y2, 15), MaskC))
    IN  XorW(y3, ShiftRight(y3, 18))

\* part_000:2098-2101  the tempering
Tempering(y0) ==
    LET y1 == XorW(y0, ShiftRight(y0, 11))
        y2 == XorW(y1, AndW(ShiftLeft(y1, 7), MaskB))
        y3 == XorW(y2, AndW(ShiftLeft(y2, 15), MaskC))
    IN  XorW(y3, ShiftRight(y3, 18))

RECURSIVE InitSeedLoop(_, _, _)
\* part_000:2021-2031  the rounds mti = from .. to - 1 of the loop of
\* _init_seed, in order (the first half of them, then the second)
InitSeedLoop(v, from, to) ==
    IF to - from <= 1
    THEN [v EXCEPT ![from] = InitWord(InitS(v[from - 1]), from)]
    ELSE LET mid == (from + to) \div 2
             half == InitSeedLoop(v, from, mid)
         IN  IF half = <<>> THEN half ELSE InitSeedLoop(half, mid, to)

\* part_000:2019-2032  _init_seed(s): the state vector it leaves
InitSeed(s) ==
    InitSeedLoop([i \in 0..(N - 1) |-> IF i = 0 THEN s ELSE <<0, 0>>], 1, N)

\* part_000:2081-2090  round k of the regeneration of the N words: of the
\* first loop (k < N - M), of the second (k < N - 1), or the last word
RegenerateWord(v, k) ==
    IF k < N - M
    THEN [v EXCEPT ![k] = Twisted(v[k], v[k + 1], v[k + M])]
    ELSE IF k < N - 1
    THEN [v EXCEPT ![k] = Twisted(v[k], v[k + 1], v[k + (M - N)])]
    ELSE [v EXCEPT ![N - 1] = Twisted(v[N - 1], v[0], v[M - 1])]

RECURSIVE Regenerate(_, _, _)
\* part_000:2081-2090  the rounds kk = from .. to - 1, in order
Regenerate(v, from, to) ==
    IF to - from <= 1 THEN RegenerateWord(v, from)
    ELSE LET mid == (from + to) \div 2
             half == Regenerate(v, from, mid)
         IN  IF half = <<>> THEN half ELSE Regenerate(half, mid, to)

TwisterInit ==
    /\ tpc = "none"
    /\ tseed = <<0, 0>>
    /\ mt = <<>>
    /\ mti = N + 1
    /\ inst = 0
    /\ drawn = 0
    /\ drew = <<0, 0>>

\* part_000:1990-2003  new MersenneTwister(seed) with a number as seed
Construct(seed) ==
    /\ mt' = InitSeed(seed)
    /\ mti' = N
    /\ tpc' = "ready"
    /\ tseed' = seed
    /\ drawn' = 0
    /\ drew' = <<0, 0>>

\* The first generator of a seed.
NewTwister(seed) ==
    /\ tpc = "none"
    /\ Construct(seed)
    /\ inst' = 1
    /\ UNCHANGED outsideTwister

\* A second generator with the seed of the first, when that has given its
\* outputs.
SecondTwister ==
    /\ tpc = "ready"
    /\ inst = 1
    /\ drawn = MaxDraws
    /\ Construct(tseed)
    /\ inst' = 2
    /\ UNCHANGED outsideTwister

\* part_000:2071-2104  random_int(): with mti >= N the N words are
\* regenerated first; then y = mt[mti++], the tempering, return y >>> 0.
RandomIntCall ==
    /\ tpc = "ready"
    /\ drawn < MaxDraws
    /\ LET v == IF mti >= N THEN Regenerate(mt, 0, N) ELSE mt
           at == IF mti >= N THEN 0 ELSE mti
       IN  /\ mt' = v
           /\ mti' = at + 1
           /\ drew' = Tempering(v[at])
    /\ drawn' = drawn + 1
    /\ UNCHANGED <<tpc, tseed, inst>>
    /\ UNCHANGED outsideTwister

\* Both generators are dropped.
DropTwisters ==
    /\ tpc = "ready"
    /\ inst = 2
    /\ drawn = MaxDraws
    /\ tpc' = "none"
    /\ tseed' = <<0, 0>>
    /\ mt' = <<>>
    /\ mti' = N + 1
    /\ inst' = 0
    /\ drawn' = 0
    /\ drew' = <<0, 0>>
    /\ UNCHANGED outsideTwister

TwisterNext ==
    \/ \E seed \in Seeds : NewTwister(seed)
    \/ SecondTwister
    \/ RandomIntCall
    \/ DropTwisters

\* -------------------------------------------------------------- the lineup

\* The elements of a lineup array, as far as parseLineup reads them: the
\* identifier, the kind, and whether the object named after the kind (el.ota,
\* el.ott) is there.
Els == [identifier : {"CH1", "WEB1"}, kind : {"ota", "ott", "other"},
        detail : BOOLEAN]

ElSeqs == UNION {[1..n -> Els] : n \in 0..MaxEls}

\* What the cloud answers the lineup request with (app.js:1186): a JSON
\* array of elements, a JSON value that is no array, or text that is no JSON.
Responses == {[kind |-> "array", els |-> q] : q \in ElSeqs}
             \cup {[kind |-> "object", els |-> <<>>],
                   [kind |-> "text", els |-> <<>>]}

\* app.js:1132  LINEUP_DATA = {};
EmptyLineup == [id \in {} |-> "ota"]

\* app.js:1138, 1146  LINEUP_DATA[el.identifier] = {..., type: ...}
Put(map, id, type) ==
    [k \in DOMAIN map \cup {id} |-> IF k = id THEN type ELSE map[k]]

\* app.js:1134-1155  the for loop from element i on.  Reading el.ota.major
\* (line 1139) or el.ott.major (line 1147) of an element without that object
\* throws; what the loop stored before stays in LINEUP_DATA.
RECURSIVE FillLoop(_, _, _)
FillLoop(map, lineupParse, i) ==
    IF i > Len(lineupParse) THEN [map |-> map, threw |-> FALSE]
    ELSE LET el == lineupParse[i] IN
         IF el.kind \in {"ota", "ott"}
         THEN IF el.detail
              THEN FillLoop(Put(map, el.identifier, el.kind), lineupParse,
                            i + 1)
              ELSE [map |-> map, threw |-> TRUE]
         ELSE FillLoop(map, lineupParse, i + 1)

\* app.js:1125-1162  parseLineup up to its return or its catch: the map it
\* leaves in LINEUP_DATA and whether it got into the catch.  A value that is
\* no array has no length, so that the loop does not run (line 1134).
ParseLineup(file) ==
    IF file.kind = "array" THEN FillLoop(EmptyLineup, file.els, 1)
    ELSE [map |-> EmptyLineup, threw |-> FALSE]

\* The serving process after startup parsed the lineup file (app.js:1273).
LineupInit ==
    /\ lineupFile = [kind |-> "array",
                     els |-> <<[identifier |-> "CH1", kind |-> "ota",
                                detail |-> TRUE],
                               [identifier |-> "WEB1", kind |-> "ott",
                                detail |-> TRUE]>>]
    /\ oldLineup = [CH1 |-> "ota", WEB1 |-> "ott"]
    /\ lpc = "serving"

\* app.js:1186-1200  makeLineup from the arrival of the cloud's answer on.
\* JSON.parse (line 1191), FS.writeJSON (line 1193) and parseLineup up to the
\* end of its loop run without an await, in one turn of the event loop.  In
\* the catch of parseLineup, exit() (part_000:1171) waits for a key on a
\* terminal, while the server goes on answering; without a terminal it
\* rejects, the catch of line 1198 logs, and the process goes on as before.
MakeLineup(retData, terminal) ==
    /\ lpc # "exited"
    /\ IF retData.kind = "text"
       THEN UNCHANGED lineupVars
       ELSE LET parsed == ParseLineup(retData) IN
            /\ lineupFile' = retData
            /\ oldLineup' = LINEUP_DATA
            /\ LINEUP_DATA' = parsed.map
            /\ lpc' = IF parsed.threw /\ terminal THEN "exitWait" ELSE lpc
    /\ UNCHANGED outsideLineup

\* part_000:1186-1190  a key is pressed while exit() waits: process.exit.
LineupExitKey ==
    /\ lpc = "exitWait"
    /\ lpc' = "exited"
    /\ UNCHANGED <<LINEUP_DATA, lineupFile, oldLineup>>
    /\ UNCHANGED outsideLineup

LineupNext ==
    \/ \E retData \in Responses, terminal \in BOOLEAN :
           MakeLineup(retData, terminal)
    \/ LineupExitKey

\* ------------------------------------------------------------------ the IV

\* The seeds crypt's first generator gives, as <<high, low>> halves.
EnvSeeds == {<<0, 5>>, <<0, 9>>, <<0, 0>>, <<65535, 65535>>, <<4660, 22136>>, <<32768, 1>>}

\* part_000:2279  seedBuff.writeUInt32LE(seed), and line 2285, 2317
\* ivBuff.writeUInt32LE(value, i * 4): the four bytes, the least significant
\* first, of a number given as <<high, low>> halves.
LeBytes(w) == <<w[2] % 256, w[2] \div 256, w[1] % 256, w[1] \div 256>>

\* part_000:2311  creds.readUInt32LE(): the number of the first four bytes
LeWord(buf) == <<buf[3] + 256 * buf[4], buf[1] + 256 * buf[2]>>

\* part_000:2280, 2312  new MersenneTwister(seed ^ 0xffffffff): the
\* constructor (line 2001) passes the number to _init_seed, which keeps its
\* 32 bits (line 2020).
SeededGen(seed) ==
    [mt |-> InitSeed(XorW(seed, <<65535, 65535>>)), mti |-> N]

\* part_000:2071-2104  random_int() on a generator: the generator after the
\* call and the number returned.
RandomIntOn(gen) ==
    LET v == IF gen.mti >= N THEN Regenerate(gen.mt, 0, N) ELSE gen.mt
        at == IF gen.mti >= N THEN 0 ELSE gen.mti
    IN  [gen |-> [mt |-> v, mti |-> at + 1], y |-> Tempering(v[at])]

\* Mutant of Amount: the count without the one added.
AmountWithoutOne(w) == w[2] % 16

\* part_000:2282, 2314  const amount = (pull & 15) + 1;
Amount(w) == (w[2] % 16) + 1

IvInit ==
    /\ ivpc = "idle"
    /\ ivSide = "none"
    /\ ivSeed = <<0, 0>>
    /\ seedBuff = <<0, 0, 0, 0>>
    /\ ivGen = [mt |-> <<>>, mti |-> N + 1]
    /\ ivPull = <<0, 0>>
    /\ ivAmount = 0
    /\ dropped = 0
    /\ filled = 0
    /\ ivBuff = <<>>
    /\ calls = 0
    /\ beforeIv = 0
    /\ ivCrypt = <<>>

\* What making the generator resets.
IvSeeded(side, seed) ==
    /\ ivpc' = "seeded"
    /\ ivSide' = side
    /\ ivSeed' = seed
    /\ ivGen' = SeededGen(seed)
    /\ ivPull' = <<0, 0>>
    /\ ivAmount' = 0
    /\ dropped' = 0
    /\ filled' = 0
    /\ ivBuff' = <<>>
    /\ calls' = 0
    /\ beforeIv' = 0

\* part_000:2277-2280  crypt, for the seed the generator of line 2276 gave:
\* the seed is written into seedBuff and the second generator is made.
IvCrypt(seed) ==
    /\ ivpc = "idle"
    /\ seedBuff' = LeBytes(seed)
    /\ IvSeeded("crypt", seed)
    /\ UNCHANGED ivCrypt
    /\ UNCHANGED outsideIv

\* part_000:2311-2312  decrypt of the envelope crypt made: the seed is read
\* from its first four bytes and the generator is made.
IvDecrypt ==
    /\ ivpc = "done"
    /\ ivSide = "crypt"
    /\ ivCrypt' = ivBuff
    /\ IvSeeded("decrypt", LeWord(seedBuff))
    /\ UNCHANGED seedBuff
    /\ UNCHANGED outsideIv

\* part_000:2281-2282, 2313-2314  pull and amount
IvPull ==
    /\ ivpc = "seeded"
    /\ LET r == RandomIntOn(ivGen) IN
           /\ ivGen' = r.gen
           /\ ivPull' = r.y
           /\ ivAmount' = Amount(r.y)
           /\ ivpc' = IF 0 < Amount(r.y) THEN "discard" ELSE "fill"
    /\ calls' = calls + 1
    /\ UNCHANGED <<ivSide, ivSeed, seedBuff, dropped, filled, ivBuff,
                   beforeIv, ivCrypt>>
    /\ UNCHANGED outsideIv

\* part_000:2283, 2315  one round of the discarding loop
IvDiscard ==
    /\ ivpc = "discard"
    /\ ivGen' = RandomIntOn(ivGen).gen
    /\ dropped' = dropped + 1
    /\ calls' = calls + 1
    /\ ivpc' = IF dropped + 1 < ivAmount THEN "discard" ELSE "fill"
    /\ UNCHANGED <<ivSide, ivSeed, seedBuff, ivPull, ivAmount, filled, ivBuff,
                   beforeIv, ivCrypt>>
    /\ UNCHANGED outsideIv

\* part_000:2284-2285, 2316-2317  one round of the filling loop, the first
\* after Buffer.alloc(16, 0)
IvFill ==
    /\ ivpc = "fill"
    /\ LET r == RandomIntOn(ivGen)
           buf == IF filled = 0 THEN [p \in 1..BlockLen |-> 0] ELSE ivBuff
           out == LeBytes(r.y)
       IN  /\ ivGen' = r.gen
           /\ ivBuff' = [p \in 1..BlockLen |->
                           IF (p - 1) \div WordLen = filled
                           THEN out[((p - 1) % WordLen) + 1]
                           ELSE buf[p]]
    /\ beforeIv' = IF filled = 0 THEN calls ELSE beforeIv
    /\ filled' = filled + 1
    /\ calls' = calls + 1
    /\ ivpc' = IF filled + 1 < BlockLen \div WordLen THEN "fill" ELSE "done"
    /\ UNCHANGED <<ivSide, ivSeed, seedBuff, ivPull, ivAmount, dropped,
                   ivCrypt>>
    /\ UNCHANGED outsideIv

\* The next envelope.
IvForget ==
    /\ ivpc = "done"
    /\ ivSide = "decrypt"
    /\ ivpc' = "idle"
    /\ ivSide' = "none"
    /\ ivSeed' = <<0, 0>>
    /\ seedBuff' = <<0, 0, 0, 0>>
    /\ ivGen' = [mt |-> <<>>, mti |-> N + 1]
    /\ ivPull' = <<0, 0>>
    /\ ivAmount' = 0
    /\ dropped' = 0
    /\ filled' = 0
    /\ ivBuff' = <<>>
    /\ calls' = 0
    /\ beforeIv' = 0
    /\ ivCrypt' = <<>>
    /\ UNCHANGED outsideIv

IvNext ==
    \/ \E seed \in EnvSeeds : IvCrypt(seed)
    \/ IvDecrypt
    \/ IvPull
    \/ IvDiscard
    \/ IvFill
    \/ IvForget

\* ---------------------------------------------------------- specifications

\* The state of the process when app.js starts.
Start == Init /\ SchedInit /\ CredsInit /\ CipherInit /\ SignInit
         /\ TwisterInit /\ LineupInit /\ IvInit

\* The streaming gateway.
Spec == Start /\ [][Next]_vars

\* The lineup Scheduler under startup, the keys and restarts.
SpecSched == Start /\ [][SchedNext]_schedVars

\* Setup and the reading of the credential file over successive launches.
SpecCreds == Start /\ [][CredsNext]_credVars

\* Encryption.crypt followed by Encryption.decrypt, over plaintexts and seeds.
SpecCipher == Start /\ [][CipherNext]_cipherVars

\* The signed requests to the device, as the clock moves.
SpecSign == Start /\ [][SignNext]_signVars

\* Generators made with a number and drawn from.
SpecTwister == Start /\ [][TwisterNext]_twisterVars

\* The lineup map of the serving process under refreshes.
SpecLineup == Start /\ [][LineupNext]_lineupVars

\* The derivation of the IV in crypt and then in decrypt, over seeds.
SpecIv == Start /\ [][IvNext]_ivVars

\* ------------------------------------------------------------------ claims

\* The request has arrived and names a device-backed lineup entry.
IsOta(r) == pc[r] # "idle" /\ Lookup(chan[r]) = "ota"

\* The request was admitted: its transcoder was spawned and line 356 ran.
Admitted(r) == onClose[r] = "ota"

\* The first TUNER_COUNT + 1 requests of the behaviour.
Burst == 1..(TUNER_COUNT + 1)

\* C1: in every reachable state the live session counter CURRENT_STREAMS is
\* at most the tuner capacity TUNER_COUNT.
C1_CounterWithinCapacity == CURRENT_STREAMS <= TUNER_COUNT

\* C2: when N + 1 device-backed requests arrive before any of them has its
\* watch response, and the device answers and the transcoder starts for each
\* request that gets that far, then once all handlers have returned exactly
\* N requests stream and exactly one was rejected with 500, with no watch
\* request sent and no transcoder spawned for it.
C2_BurstAdmitsExactlyN ==
    ( /\ Burst \subseteq Reqs
      /\ simul
      /\ \A r \in Burst :
            /\ IsOta(r)
            /\ pc[r] = "returned"
            /\ ~closeEmitted[r]
            /\ watch[r] # "none" => (watch[r] = "ok" /\ ffmpeg[r] = "running") )
    => ( /\ Cardinality({r \in Burst : resp[r] = "stream"}) = TUNER_COUNT
         /\ Cardinality({r \in Burst : /\ resp[r] = "500"
                                       /\ watch[r] = "none"
                                       /\ ffmpeg[r] = "none"}) = 1 )

\* C3: no session causes more than one decrement of the counter, whichever
\* of client disconnect, transcoder exit and transcoder error fire for it and
\* in whatever order: a decrement belongs to an admitted session whose
\* request has emitted 'close', the 'close' of an admitted session decrements
\* the counter by exactly one, and a session decremented once is never
\* decremented again.
C3_DecrementedOnce ==
    /\ [](\A r \in Reqs :
            /\ decs[r] <= 1
            /\ decs[r] = 1 => (Admitted(r) /\ closeEmitted[r]))
    /\ [][ \A r \in Reqs :
             /\ (Admitted(r) /\ ~closeEmitted[r] /\ closeEmitted'[r])
                   => ( /\ decs'[r] = 1
                        /\ CURRENT_STREAMS' = CURRENT_STREAMS - 1 )
             /\ decs[r] = 1 => decs'[r] = 1
         ]_vars

\* C3 witness: an admitted session for which both the transcoder exit and
\* the client disconnect have fired, with its one decrement done.
C3_Witness ==
    \E r \in Reqs :
        Admitted(r) /\ ffmpeg[r] = "exited" /\ client[r] = "gone" /\ decs[r] = 1

\* C4: an admitted device-backed session whose transcoder has exited or
\* errored on its own, with the client still connected, has had its tuner
\* slot released.
C4_ExitReleasesSlot ==
    \A r \in Reqs :
        (Admitted(r) /\ ffmpeg[r] \in {"exited", "failed"} /\ client[r] = "open")
            => decs[r] = 1

\* C5: when the client of an active device-backed session disconnects while
\* the counter is at capacity, the counter is below capacity afterwards; and
\* a device-backed request that arrives while the counter is below capacity
\* is admitted: its watch request is sent and it is not answered 500.
C5_DisconnectFreesSlot ==
    [][ \A r \in Reqs :
          /\ ( /\ Admitted(r)
               /\ ~closeEmitted[r]
               /\ client'[r] = "gone"
               /\ CURRENT_STREAMS = TUNER_COUNT )
             => CURRENT_STREAMS' < TUNER_COUNT
          /\ ( /\ pc[r] = "idle"
               /\ pc'[r] # "idle"
               /\ Lookup(chan'[r]) = "ota"
               /\ CURRENT_STREAMS < TUNER_COUNT )
             => ( /\ pc'[r] = "awaitWatch"
                  /\ watch'[r] = "sent"
                  /\ resp'[r] = "none" )
      ]_vars

\* C5 witness: a session that was released by its client's disconnect, and
\* a later request admitted next to another active session, the counter
\* being at capacity again.
C5_Witness ==
    \E a, b, c \in Reqs :
        /\ a # b /\ c > a /\ c > b
        /\ decs[a] = 1 /\ client[a] = "gone"
        /\ Admitted(b) /\ ~closeEmitted[b]
        /\ Admitted(c) /\ ~closeEmitted[c]
        /\ CURRENT_STREAMS = TUNER_COUNT

\* C6: a device-backed request that arrives while the counter is at (or
\* above) capacity is answered 500 and changes nothing else: no watch
\* request, no transcoder, the counter and every other request as before.
C6_RejectAtCapacityChangesNothing ==
    [][ \A r \in Reqs :
          ( /\ pc[r] = "idle"
            /\ pc'[r] # "idle"
            /\ Lookup(chan'[r]) = "ota"
            /\ CURRENT_STREAMS >= TUNER_COUNT )
          => ( /\ resp'[r] = "500"
               /\ pc'[r] = "returned"
               /\ watch' = watch
               /\ ffmpeg' = ffmpeg
               /\ CURRENT_STREAMS' = CURRENT_STREAMS
               /\ onClose' = onClose
               /\ decs' = decs
               /\ closeEmitted' = closeEmitted
               /\ serverUp' = serverUp
               /\ \A q \in Reqs \ {r} : resp'[q] = resp[q] /\ pc'[q] = pc[q] )
      ]_vars

\* C6 witness: a device-backed request rejected without a watch request
\* while another admitted session keeps streaming.
C6_Witness ==
    \E r, q \in Reqs :
        /\ r # q
        /\ IsOta(r) /\ resp[r] = "500" /\ watch[r] = "none" /\ ffmpeg[r] = "none"
        /\ Admitted(q) /\ ffmpeg[q] = "running" /\ resp[q] = "stream"

\* C7: a request whose transcoder could not be started or run (spawn threw,
\* the child emitted 'error', or the watch response did not parse) is
\* answered 500, leaves the counter as it was, and the server keeps running
\* (no other request having ended the process by a rejected promise).
C7_TranscoderFailureIsLocal ==
    \A r \in Reqs :
        ( /\ ffmpeg[r] \in {"threw", "failed"} \/ watch[r] = "unparsable"
          /\ \A q \in Reqs : watch[q] # "rejected" )
        => ( /\ resp[r] = "500"
             /\ serverUp
             /\ Admitted(r) => decs[r] = 1 )

\* C8: a direct-URL request is served whatever the counter is: the spawn is
\* attempted, no watch request is sent, the response streams unless spawn
\* threw, and the counter is unchanged; the counter is also unchanged when
\* the request of a direct-URL session emits 'close'.
C8_OttBypassesAdmission ==
    [][ \A r \in Reqs :
          /\ ( /\ pc[r] = "idle"
               /\ pc'[r] # "idle"
               /\ Lookup(chan'[r]) = "ott" )
             => ( /\ ffmpeg'[r] # "none"
                  /\ watch'[r] = "none"
                  /\ ffmpeg'[r] # "threw" => resp'[r] = "stream"
                  /\ CURRENT_STREAMS' = CURRENT_STREAMS )
          /\ ( /\ onClose[r] = "ott"
               /\ ~closeEmitted[r]
               /\ closeEmitted'[r] )
             => CURRENT_STREAMS' = CURRENT_STREAMS
      ]_vars

\* C8 witness: a direct-URL session was served after TUNER_COUNT
\* device-backed requests that are admitted and active, and its client has
\* disconnected, the counter being at capacity.
C8_Witness ==
    \E r \in Reqs :
        /\ onClose[r] = "ott"
        /\ client[r] = "gone"
        /\ CURRENT_STREAMS = TUNER_COUNT
        /\ Cardinality({q \in Reqs : q < r /\ Admitted(q) /\ ~closeEmitted[q]})
              = TUNER_COUNT

\* C9: no transcoder process is alive for a request whose client has
\* disconnected and whose handler has returned.
C9_DisconnectTerminatesTranscoder ==
    \A r \in Reqs :
        (client[r] = "gone" /\ pc[r] = "returned")
            => ffmpeg[r] \notin {"running", "sigint"}

\* C10: a request whose identifier is not an entry of the lineup is answered
\* 404 and has no side effect: no watch request, no transcoder, no listener,
\* no decrement.
C10_UnknownIdIs404 ==
    \A r \in Reqs :
        (pc[r] # "idle" /\ chan[r] \notin DOMAIN LINEUP_DATA)
            => ( /\ resp[r] = "404"
                 /\ watch[r] = "none"
                 /\ ffmpeg[r] = "none"
                 /\ onClose[r] = "none"
                 /\ decs[r] = 0 )

\* C23: when the client of a device-backed request has disconnected while
\* the handler was suspended at line 343, the handler finishes leaving no
\* transcoder running for the request and the counter where it was.
C23_DisconnectWhileAwaiting ==
    [][ \A r \in Reqs :
          ( /\ pc[r] = "awaitWatch"
            /\ closeEmitted[r]
            /\ pc'[r] = "returned" )
          => ( /\ ffmpeg'[r] # "running"
               /\ CURRENT_STREAMS' = CURRENT_STREAMS )
      ]_vars

\* C27: a handler that has returned has answered its request: it started
\* streaming or sent a 404 or a 500, on every path.
C27_EveryPathResponds ==
    \A r \in Reqs : pc[r] = "returned" => resp[r] # "none"

\* C28: the counter is the number of device-backed sessions that were
\* admitted and whose request has not emitted 'close' (so it is 0 at the
\* start, never negative, and 0 when no such session is left).
C28_CounterIsLiveSessions ==
    CURRENT_STREAMS =
        Cardinality({r \in Reqs : Admitted(r) /\ ~closeEmitted[r]})

\* --------------------------------------------------- claims: the Scheduler

\* This step is the end of an execution that instance i started for reason
\* trig (the process goes on).
Ended(i, trig) ==
    /\ inflight'[i][trig] = inflight[i][trig] - 1
    /\ boot' # "start"

\* This step starts an execution of the task by instance i for reason trig.
Started(i, trig) == inflight'[i][trig] = inflight[i][trig] + 1

\* C11: when the task of a run throws, whatever started the run, the
\* instance's runAt and nextCheck and the state file keep their values, so a
\* task that is due stays due for the next poll.
C11_ThrowingTaskKeepsState ==
    [][\A i \in Insts, trig \in Triggers :
          Ended(i, trig) /\ last' = "throws" =>
             /\ schedFile' = schedFile
             /\ sched'[i].runAt = sched[i].runAt
             /\ sched'[i].nextCheck = sched[i].nextCheck
             /\ sched'[i].interval = sched[i].interval
             /\ Due(sched[i]) => sched'[i].runAt - now' <= 0]_schedVars

\* A run has thrown, a day has passed, and the timer has started the task,
\* still due, again.
C11_Witness ==
    /\ last = "throws"
    /\ ~lastOk.done
    /\ \E i \in Insts : inflight[i]["poll"] > 0 /\ Due(sched[i])

\* C12: when the lineup task fails in its request or in parsing the reply,
\* the instance's nextCheck and the state file keep their values.
C12_FailedRefreshKeepsState ==
    [][\A i \in Insts, trig \in Triggers :
          Ended(i, trig) /\ last' = "caught" =>
             /\ schedFile' = schedFile
             /\ sched'[i].nextCheck = sched[i].nextCheck
             /\ sched'[i].runAt = sched[i].runAt]_schedVars

\* C13: right after an execution that refreshed the lineup, the instance's
\* runAt and the file's nextCheck both are the completion time plus the
\* interval, less than a second off, and runAt is later than the clock.
C13_NextRunInFuture ==
    [][\A i \in Insts, trig \in Triggers :
          Ended(i, trig) /\ last' = "ok" =>
             /\ sched'[i].runAt = ParseDate(schedFile'.nextCheck)
             /\ sched'[i].runAt <= now' + sched[i].interval
             /\ sched'[i].runAt + SecMs > now' + sched[i].interval
             /\ sched'[i].runAt > now']_schedVars

\* C14: the eager check or the timer of any instance starts the task only
\* when an interval (less the clock resolution) has passed since the last
\* refresh they started, in this process or an earlier one; and an instance
\* made over an existing state file starts it only at or after the
\* nextCheck found in the file.
C14_OncePerInterval ==
    [][\A i \in Insts :
          /\ (Started(i, "poll") \/ Started(i, "eager")) /\ lastOk.done =>
                now + SecMs > lastOk.end + lastOk.interval
          /\ Started(i, "eager") /\ schedFile.exists =>
                now >= ParseDate(schedFile.nextCheck)]_schedVars

\* C15: an instance made when there is no state file writes the file with
\* nextCheck = the time of construction, and its eager check starts the
\* task.
C15_FreshStateRunsAtOnce ==
    [][\A i \in Insts :
          sched'[i].made /\ ~sched[i].made /\ ~schedFile.exists =>
             /\ schedFile' = [exists |-> TRUE,
                              interval |-> LINEUP_UPDATE_INTERVAL,
                              nextCheck |-> RFC1123(now)]
             /\ ParseDate(schedFile'.nextCheck) <= now
             /\ ParseDate(schedFile'.nextCheck) + SecMs > now
             /\ Started(i, "eager")]_schedVars

\* The first instance of a process started inside a second, with its eager
\* run in flight and no run ever ended.
C15_Witness ==
    /\ \E i \in Insts : inflight[i]["eager"] = 1
    /\ last = ""
    /\ now % SecMs > 0
    /\ schedFile.nextCheck = RFC1123(now)

C24_OneRunAtATime ==
    \A i \in Insts :
        inflight[i]["eager"] + inflight[i]["poll"] + inflight[i]["manual"]
            <= 1

\* C29: an instance's nextCheck and runAt, and the nextCheck the Scheduler
\* writes to the state file, move on only in a step that ends an execution
\* of the task function given to the constructor, also for an instance made
\* over a state file whose nextCheck is no date.
C29_AdvancesOnlyAfterTask ==
    [][/\ \A i \in Insts :
             /\ sched[i].made /\ sched'[i].made
             /\ \/ sched'[i].nextCheck # sched[i].nextCheck
                \/ sched'[i].runAt # sched[i].runAt
             => \E trig \in Triggers :
                   Ended(i, trig) /\ last' \in {"ok", "caught"}
       /\ /\ schedFile.exists
          /\ schedFile'.nextCheck # schedFile.nextCheck
          /\ schedFile'.nextCheck # NotADate
          => \E i \in Insts, trig \in Triggers :
                Ended(i, trig) /\ last' \in {"ok", "caught"}]_schedVars

C17_CorruptCredsDeleted ==
    /\ [](found \in Corrupt =>
             /\ cpc \in {"exit", "dead"}
             /\ exitCalls > 0
             /\ CREDS_DATA = "undefined"
             /\ tunerSource = "default"
             /\ unlinked # "no")
    /\ [][found' \in Corrupt /\ found = "" =>
             /\ unlinked' = "ok" => credsFile' = "none"
             /\ unlinked' = "failed" => credsFile' = credsFile]_credVars

\* readCreds found a damaged plaintext, removed the file, and the process
\* has ended.
C17_Witness ==
    /\ found \in Corrupt
    /\ unlinked = "ok"
    /\ credsFile = "none"
    /\ cpc = "dead"

\* C18: setup writes the credential file only when the server-info request
\* brought a usable reply.
C18_FileOnlyAfterHandshake ==
    [][cpc = "setup" /\ credsFile' # credsFile => handshake' = "ok"]_credVars

\* C22: a process started with --creds has run the login flow and written
\* a new credential file by the time it goes on to the lineup (whose task
\* begins with readCreds), whether or not a credential file existed.
C22_CredsFlagLogsInAgain ==
    (mode = "creds" /\ cpc = "read") => handshake \in {"ok", "notuners"}

\* --------------------------------------------------- claims: the envelope

\* C19: decrypt gives back the plaintext crypt was given, whatever the
\* plaintext and the seed: it derives the IV crypt derived (the key is the
\* same constant fold) and returns exactly the bytes crypt took.
C19_RoundTrip ==
    cstep = "decrypted" =>
       /\ ivD = ivC
       /\ ~recovered.null
       /\ recovered.bytes = plain

\* The round trip of every plaintext of at least one byte: the case in which
\* the decipher stream has something buffered when decrypt reads it.
RoundTripNonEmpty ==
    (cstep = "decrypted" /\ plain # <<>>) =>
       /\ ivD = ivC
       /\ ~recovered.null
       /\ recovered.bytes = plain

\* ------------------------------------------- claims: the device requests

\* C20: every request handed to fetch for the device carries, as its
\* Authorization header, the token makeDeviceAuth returned, and what that
\* token signs is the request: the date signed is the Date header, the
\* method and the path signed are those requested (with no query), and the
\* digest signed is that of exactly the body sent, or empty when no body is
\* sent.
C20_SignatureCoversRequest ==
    \A k \in 1..Len(deviceReqs) :
        LET f == deviceReqs[k].fetch
            signed == f.headers.Authorization.hmac.over
        IN  /\ f.headers.Authorization = deviceReqs[k].auth.token
            /\ f.headers.Authorization.device = DeviceKey
            /\ f.headers.Authorization.hmac.key = HashKey
            /\ signed.date = f.headers.Date
            /\ signed.method = f.method
            /\ signed.url = f.url.pathname
            /\ f.url.search = <<>>
            /\ IF f.body.sent
               THEN /\ ~signed.msg.empty
                    /\ signed.msg.hex = [md5 |-> f.body.bytes]
                    /\ f.headers.ContentLength = Len(f.body.bytes.utf8)
               ELSE signed.msg.empty

\* C20 witness: a watch request with its body and a server-info request
\* without one are in flight, signed in different seconds.
C20_Witness ==
    /\ Len(deviceReqs) = 2
    /\ deviceReqs[1].fetch.method = "POST"
    /\ deviceReqs[1].fetch.body.sent
    /\ deviceReqs[2].fetch.method = "GET"
    /\ ~deviceReqs[2].fetch.body.sent
    /\ deviceReqs[2].fetch.headers.Date > deviceReqs[1].fetch.headers.Date

\* ------------------------------------------------- claims: the generator

\* The first outputs of the reference MT19937 (genrand_int32 after
\* init_genrand) for the seed 5489.
Reference5489 == <<
    <<53393, 47964>>, <<8878, 40694>>, <<59361, 64238>>, <<54723, 8057>>,
    <<8322, 13612>>, <<63495, 47071>>, <<59859, 5>>, <<14485, 45025>>,
    <<41442, 19386>>, <<20196, 2347>>, <<6392, 26723>>, <<35862, 42533>>,
    <<18251, 43204>>, <<12345, 52506>>, <<35840, 27999>>, <<65069, 30736>>,
    <<62751, 10983>>, <<65304, 5860>>, <<63234, 61273>>, <<63418, 56058>>,
    <<10329, 21665>>, <<47568, 38161>>, <<63608, 50355>>, <<64298, 311>>,
    <<62728, 58538>>, <<7199, 58962>>, <<31809, 37912>>, <<52304, 43609>>,
    <<52447, 11868>>, <<19466, 7995>>, <<9298, 43484>>, <<313, 32141>>,
    <<27640, 35889>>, <<7370, 31098>>, <<60013, 42158>>, <<41927, 34823>>,
    <<51918, 6505>>, <<57568, 54445>>, <<62881, 19371>>, <<33008, 2440>>,
    <<42974, 40780>>, <<52293, 3258>>, <<2340, 26255>>, <<23677, 50048>>,
    <<55648, 35269>>, <<13888, 44108>>, <<61210, 11885>>, <<44653, 37926>>,
    <<44481, 38491>>, <<26131, 47686>>, <<49659, 16834>>, <<48539, 3789>>,
    <<48701, 60924>>, <<31113, 51438>>, <<25704, 64878>>, <<27661, 61490>>,
    <<42957, 26164>>, <<11394, 28043>>, <<11218, 58386>>, <<19786, 11710>>,
    <<46271, 28583>>, <<52250, 35161>>, <<2086, 12930>>, <<20745, 29488>>,
    <<18148, 27824>>, <<57175, 32450>>, <<3025, 58212>>, <<9772, 21860>>,
    <<6365, 41161>>, <<65147, 17881>>, <<53966, 8649>>, <<53864, 16538>>,
    <<45536, 18913>>, <<8203, 64071>>, <<20781, 28275>>, <<50053, 7918>>,
    <<62273, 49281>>, <<32151, 15944>>, <<2257, 30036>>, <<43490, 3368>>,
    <<28753, 36070>>, <<8250, 49923>>, <<25005, 53419>>, <<13776, 17164>>,
    <<50168, 59538>>, <<3356, 34057>>, <<52114, 14478>>, <<2388, 14015>>,
    <<12246, 57864>>, <<26786, 39673>>, <<32097, 13067>>, <<30014, 50940>>,
    <<29201, 61418>>, <<31953, 20787>>, <<42356, 50431>>, <<52033, 61848>>,
    <<46488, 61174>>, <<60350, 29511>>, <<49459, 9576>>, <<52922, 23152>>,
    <<18089, 37977>>, <<46253, 40721>>, <<44544, 65194>>, <<184, 46451>>,
    <<42932, 32950>>, <<46576, 45164>>, <<10656, 60455>>, <<42202, 40976>>,
    <<7798, 41413>>, <<29886, 37171>>, <<32660, 51536>>, <<50719, 28374>>,
    <<62897, 51105>>, <<37601, 38392>>, <<22307, 34004>>, <<57459, 11400>>,
    <<38356, 7016>>, <<52964, 38595>>, <<14667, 48466>>, <<1164, 54396>>,
    <<49235, 2494>>, <<53821, 11619>>, <<16717, 59845>>, <<53794, 40739>>,
    <<33158, 26275>>, <<61608, 45321>>, <<45814, 45351>>, <<27044, 33601>>,
    <<58386, 15446>>, <<27732, 35983>>, <<62868, 8033>>, <<38073, 37802>>,
    <<35862, 20788>>, <<10358, 30268>>, <<9084, 58414>>, <<49920, 53531>>,
    <<9784, 8650>>, <<15083, 33282>>, <<16876, 3972>>, <<53066, 50029>>,
    <<55097, 16102>>, <<64783, 49258>>, <<16664, 41738>>, <<21787, 21668>>,
    <<53364, 63599>>, <<19649, 50506>>, <<15959, 42755>>, <<887, 19674>>,
    <<60900, 14485>>, <<14236, 58919>>, <<22936, 35129>>, <<59465, 3548>>,
    <<12884, 4321>>, <<55605, 12138>>, <<16455, 2058>>, <<62588, 2077>>,
    <<40373, 6789>>, <<51045, 55071>>, <<31017, 29991>>, <<64714, 10099>>,
    <<23046, 23447>>, <<4429, 61007>>, <<54449, 12127>>, <<52009, 13834>>,
    <<38355, 56854>>, <<38961, 25256>>, <<36026, 44979>>, <<48024, 45695>>,
    <<60109, 13369>>, <<45562, 51266>>, <<18732, 48881>>, <<44552, 43896>>,
    <<49623, 57296>>, <<25711, 7488>>, <<49396, 25540>>, <<36802, 14977>>,
    <<24932, 58915>>, <<13635, 62140>>, <<37212, 49747>>, <<34561, 53471>>,
    <<4971, 12253>>, <<26490, 13726>>, <<3535, 44240>>, <<23118, 41758>>,
    <<34786, 22837>>, <<38851, 20034>>, <<51063, 33008>>, <<23353, 28602>>,
    <<61211, 21222>>, <<63240, 2369>>, <<8513, 34955>>, <<10121, 18096>>,
    <<37278, 28004>>, <<25880, 46169>>, <<30761, 64546>>, <<25381, 54030>>,
    <<780, 921>>, <<47641, 46179>>, <<22093, 43893>>, <<25465, 20375>>,
    <<10628, 51079>>, <<60784, 11198>>, <<52054, 15181>>, <<28581, 26262>>,
    <<20395, 51693>>, <<56536, 31304>>, <<34637, 62101>>, <<40655, 59888>>,
    <<10855, 62623>>, <<7834, 42209>>, <<39451, 32008>>, <<30930, 10548>>,
    <<17234, 5634>>, <<22296, 41825>>, <<42865, 47684>>, <<34723, 47484>>,
    <<45168, 23682>>, <<46930, 24648>>, <<49030, 56535>>, <<64774, 28324>>,
    <<29526, 45499>>, <<47218, 17005>>, <<5493, 20829>>, <<59806, 44467>>,
    <<15006, 15375>>, <<33128, 22940>>, <<59856, 31282>>, <<36586, 45954>>,
    <<9986, 16104>>, <<32977, 4012>>, <<54120, 48578>>, <<30308, 46503>>,
    <<35280, 53062>>, <<35821, 29544>>, <<65282, 44873>>, <<29332, 58416>>,
    <<5123, 20411>>, <<55997, 19652>>, <<29011, 23800>>, <<39598, 59936>>,
    <<6989, 39069>>, <<32672, 38784>>, <<63038, 62418>>, <<64220, 26504>>,
    <<303, 46440>>, <<2249, 1274>>, <<50784, 34879>>, <<64028, 52778>>,
    <<53562, 51384>>, <<23801, 51635>>, <<56930, 50877>>, <<44533, 173>>,
    <<5533, 38526>>, <<22690, 49260>>, <<26200, 10187>>, <<56090, 41480>>,
    <<17030, 56817>>, <<2953, 1460>>, <<52433, 18852>>, <<43261, 38743>>,
    <<28273, 8944>>, <<49148, 8625>>, <<59680, 13160>>, <<8716, 1828>>,
    <<11917, 34507>>, <<64379, 64350>>, <<17288, 38535>>, <<6249, 12891>>,
    <<9538, 2812>>, <<18525, 18139>>, <<8917, 25473>>, <<52567, 11616>>,
    <<56969, 61227>>, <<5082, 50952>>, <<37991, 34077>>, <<41116, 17037>>,
    <<36035, 41836>>, <<530, 29006>>, <<9499, 49654>>, <<44583, 19184>>,
    <<55904, 16200>>, <<34991, 55060>>, <<40767, 333>>, <<28748, 30768>>,
    <<23000, 1019>>, <<13077, 51676>>, <<33636, 21107>>, <<9044, 3598>>,
    <<26332, 58423>>, <<25056, 37444>>, <<4978, 36240>>, <<49966, 2708>>,
    <<15723, 9513>>, <<2652, 20628>>, <<8081, 54372>>, <<16577, 47364>>,
    <<12052, 38073>>, <<33080, 44034>>, <<15725, 34645>>, <<53910, 15605>>,
    <<27346, 950>>, <<64338, 13536>>, <<3254, 9987>>, <<53965, 63835>>,
    <<59160, 26413>>, <<19780, 36337>>, <<61917, 37591>>, <<3142, 5025>>,
    <<32169, 17649>>, <<16242, 61635>>, <<32063, 43312>>, <<35655, 17084>>,
    <<22132, 51057>>, <<58178, 1300>>, <<58985, 60885>>, <<22533, 56873>>,
    <<24198, 62724>>, <<2180, 18932>>, <<7287, 51360>>, <<10673, 64716>>,
    <<51134, 39265>>, <<57498, 60391>>, <<25541, 60601>>, <<13782, 22497>>,
    <<15839, 31460>>, <<17875, 9372>>, <<26470, 51520>>, <<32272, 44444>>,
    <<6321, 15999>>, <<14642, 3234>>, <<8649, 120>>, <<32132, 26140>>,
    <<61738, 14881>>, <<62583, 11073>>, <<62661, 15275>>, <<42727, 27451>>,
    <<37696, 57042>>, <<49643, 49695>>, <<3917, 46676>>, <<28524, 17123>>,
    <<15386, 35139>>, <<36233, 40820>>, <<23144, 39354>>, <<3483, 26663>>,
    <<53817, 50635>>, <<21136, 4202>>, <<1009, 31451>>, <<26540, 56358>>,
    <<2819, 39824>>, <<59535, 6906>>, <<11074, 60977>>, <<53027, 40525>>,
    <<42540, 28307>>, <<16927, 44561>>, <<47954, 10385>>, <<8509, 40754>>,
    <<42450, 44523>>, <<32330, 43809>>, <<29551, 48245>>, <<24805, 26483>>,
    <<35848, 50765>>, <<47085, 42377>>, <<19419, 44595>>, <<18861, 38499>>,
    <<48804, 12300>>, <<40857, 31062>>, <<12383, 23308>>, <<53206, 63780>>,
    <<45008, 33755>>, <<20480, 34272>>, <<12026, 38468>>, <<25277, 60605>>,
    <<24149, 421>>, <<22539, 51131>>, <<41000, 35245>>, <<53462, 15821>>,
    <<51132, 64572>>, <<43862, 17743>>, <<5316, 43138>>, <<24865, 38855>>,
    <<60908, 15663>>, <<30048, 3464>>, <<50837, 6952>>, <<19897, 42285>>,
    <<31902, 24653>>, <<59674, 51572>>, <<28564, 28066>>, <<32022, 3312>>,
    <<29280, 27512>>, <<49531, 29271>>, <<20076, 60238>>, <<7081, 61977>>,
    <<33325, 40858>>, <<25794, 19958>>, <<33473, 60619>>, <<57028, 36690>>,
    <<53584, 3254>>, <<23649, 24098>>, <<52090, 4679>>, <<60104, 15710>>,
    <<42226, 2174>>, <<35638, 54883>>, <<24812, 35709>>, <<9184, 30576>>,
    <<53187, 48310>>, <<13098, 56912>>, <<34919, 16892>>, <<62188, 49445>>,
    <<22985, 16471>>, <<64887, 55443>>, <<61538, 26639>>, <<15733, 40464>>,
    <<57405, 51651>>, <<1082, 45417>>, <<36055, 3022>>, <<25468, 18607>>,
    <<40794, 34553>>, <<51097, 47341>>, <<38472, 36802>>, <<31236, 62433>>,
    <<13614, 39253>>, <<35398, 31742>>, <<19742, 31451>>, <<1209, 12745>>,
    <<30862, 28320>>, <<58994, 26613>>, <<15105, 17846>>, <<12746, 29456>>,
    <<55332, 40684>>, <<58064, 50641>>, <<12764, 4760>>, <<28916, 1373>>,
    <<14806, 663>>, <<9688, 7995>>, <<11187, 34249>>, <<15696, 2192>>,
    <<14920, 13581>>, <<52406, 4619>>, <<28553, 62201>>, <<30999, 33750>>,
    <<20388, 26190>>, <<5886, 42623>>, <<60514, 39871>>, <<42241, 17286>>,
    <<28194, 4676>>, <<41488, 30169>>, <<12112, 8018>>, <<38298, 4852>>,
    <<59302, 18292>>, <<47622, 1410>>, <<64208, 51759>>, <<23241, 37007>>,
    <<28761, 51283>>, <<44591, 8510>>, <<7282, 20264>>, <<46355, 1532>>,
    <<16912, 34612>>, <<10638, 23709>>, <<26785, 56619>>, <<8764, 35894>>,
    <<38987, 7151>>, <<29462, 6996>>, <<17184, 20256>>, <<2756, 3877>>,
    <<39507, 60585>>, <<52256, 3544>>, <<46610, 15552>>, <<10980, 61357>>,
    <<14532, 25794>>, <<54474, 30116>>, <<7695, 5465>>, <<21296, 53102>>,
    <<19442, 62251>>, <<42977, 12541>>, <<20891, 29794>>, <<27537, 37268>>,
    <<27798, 12616>>, <<51243, 12987>>, <<33283, 36>>, <<7418, 12192>>,
    <<5604, 23778>>, <<65112, 19089>>, <<17202, 2367>>, <<11899, 37143>>,
    <<52495, 19277>>, <<49999, 31020>>, <<1914, 64245>>, <<17427, 24641>>,
    <<60873, 25239>>, <<15999, 55396>>, <<47862, 63162>>, <<6601, 65390>>,
    <<32021, 31320>>, <<22565, 57310>>, <<37914, 14304>>, <<18456, 47803>>,
    <<15550, 40385>>, <<63480, 53454>>, <<30071, 7657>>, <<14009, 53097>>,
    <<63116, 63608>>, <<39710, 7285>>, <<35835, 30126>>, <<14847, 17517>>,
    <<34153, 10357>>, <<12445, 42399>>, <<15177, 50441>>, <<26317, 25454>>,
    <<32040, 26376>>, <<27085, 27182>>, <<40898, 26339>>, <<11151, 6536>>,
    <<44507, 54191>>, <<19598, 43239>>, <<25920, 31799>>, <<41711, 39590>>,
    <<24080, 21531>>, <<9933, 36965>>, <<64748, 25447>>, <<50413, 7928>>,
    <<2473, 16655>>, <<57931, 50215>>, <<58010, 24285>>, <<62863, 35856>>,
    <<59853, 10851>>, <<1183, 64951>>, <<52178, 46284>>, <<38197, 27568>>,
    <<6469, 13621>>, <<50256, 36002>>, <<17161, 64894>>, <<21482, 36329>>,
    <<21977, 62008>>, <<8458, 31466>>, <<44546, 42667>>, <<19133, 61731>>,
    <<8949, 9579>>, <<55516, 11662>>, <<47266, 23965>>, <<15123, 24591>>,
    <<6996, 48858>>, <<32897, 25777>>, <<42844, 42071>>, <<104, 47201>>,
    <<32386, 12001>>, <<821, 48694>>, <<51055, 61198>>, <<18781, 48360>>,
    <<46860, 43933>>, <<6468, 22309>>, <<59226, 15126>>, <<25215, 20790>>,
    <<58387, 32577>>, <<23288, 8641>>, <<21899, 46502>>, <<47184, 999>>,
    <<45793, 450>>, <<4289, 508>>, <<12963, 43581>>, <<33676, 18064>>,
    <<2001, 34816>>, <<27785, 55315>>, <<48763, 42637>>, <<45206, 53433>>,
    <<32769, 30826>>, <<16642, 27224>>, <<31452, 11621>>, <<26313, 64607>>,
    <<59291, 57448>>, <<17332, 48187>>, <<39968, 14440>>, <<61227, 3042>>,
    <<40479, 25191>>, <<30967, 27146>>, <<56324, 26925>>, <<40037, 243>>,
    <<52788, 36370>>, <<32007, 59374>>, <<37796, 1401>>, <<33719, 36329>>,
    <<11988, 456>>, <<16057, 38109>>, <<15724, 12093>>, <<21823, 54490>>,
    <<58098, 29233>>, <<32922, 53784>>, <<1879, 12398>>, <<39063, 16563>>,
    <<32106, 11633>>, <<20326, 25131>>, <<11005, 17911>>, <<63111, 363>>,
    <<64138, 53427>>, <<15230, 38642>>, <<46707, 9480>>, <<48949, 7475>>,
    <<32798, 59544>>, <<21137, 34079>>, <<30873, 16254>>, <<20855, 43358>>,
    <<3907, 11908>>, <<62421, 13580>>, <<44693, 46560>>, <<35043, 31355>>,
    <<2780, 50257>>, <<57134, 40795>>, <<4682, 16360>>, <<61250, 7816>>,
    <<34186, 55299>>, <<43719, 64785>>, <<6339, 19605>>, <<18985, 5563>>,
    <<53618, 12058>>, <<4294, 13835>>, <<53578, 50223>>, <<15197, 3430>>,
    <<47345, 52493>>, <<46184, 50707>>, <<9821, 38141>>, <<12786, 36611>>,
    <<43227, 58333>>, <<27670, 33051>>, <<33986, 41811>>, <<61345, 19967>>,
    <<63764, 56408>>, <<9320, 22721>>, <<42532, 20072>>, <<42151, 33444>>,
    <<52450, 30457>>, <<30980, 63798>>, <<29740, 5672>>, <<28634, 54737>>,
    <<28337, 13750>>, <<16011, 47968>>, <<54087, 50143>>, <<33155, 61262>>,
    <<5470, 18195>>, <<59437, 31987>>, <<8727, 32453>>, <<5013, 50096>>,
    <<11363, 12839>>, <<46786, 26695>>, <<25620, 32767>>, <<40449, 9268>>,
    <<54485, 19845>>, <<12391, 53855>>, <<52649, 18941>>, <<26016, 39298>>,
    <<3963, 2578>>, <<18196, 64989>>, <<26165, 49605>>, <<56236, 25940>>,
    <<34529, 21901>>, <<59568, 4414>>, <<27315, 24230>>, <<40454, 138>>,
    <<43047, 63560>>, <<11850, 8814>>, <<41154, 56491>>, <<33752, 38960>>,
    <<19135, 30696>>, <<54043, 4162>>, <<28288, 45303>>, <<23548, 44980>>,
    <<1014, 63182>>, <<53485, 2954>>, <<64491, 39343>>, <<19227, 32239>>,
    <<10955, 35996>>, <<11279, 59825>>, <<6960, 65172>>, <<32295, 30041>>,
    <<24406, 16032>>, <<12800, 52696>>, <<12983, 58154>>, <<56643, 16765>>,
    <<32092, 11099>>, <<13382, 17401>>, <<22249, 2655>>, <<40388, 1303>>,
    <<62366, 3527>>, <<57543, 60351>>, <<60314, 57697>>, <<25720, 55971>>,
    <<3452, 15694>>, <<62034, 58130>>, <<48356, 17593>>, <<10924, 48347>>,
    <<17637, 682>>, <<63692, 62739>>, <<27710, 62565>>, <<36960, 218>>,
    <<35905, 17514>>, <<39214, 46203>>, <<61783, 13832>>, <<8599, 49491>>,
    <<27377, 18177>>, <<37144, 21193>>, <<64425, 21391>>, <<36331, 56716>>,
    <<19756, 9937>>, <<20348, 17698>>, <<45947, 13647>>, <<7906, 55596>>,
    <<43669, 11986>>, <<48351, 56307>>, <<35332, 12579>>, <<15907, 8997>>,
    <<45751, 2829>>, <<53926, 58790>>, <<43681, 37588>>, <<12155, 23150>>,
    <<11674, 5809>>, <<20491, 39049>>, <<8389, 36132>>, <<57784, 49596>>,
    <<65475, 48001>>, <<44185, 14393>>, <<11214, 38658>>, <<48450, 39628>>,
    <<2136, 34581>>, <<4098, 54644>>, <<36778, 51768>>, <<8622, 1212>>,
    <<57794, 221>>, <<5895, 10080>>, <<43855, 4787>>, <<544, 58686>>,
    <<12480, 15370>>, <<29917, 56777>>, <<24177, 20637>>, <<41569, 46034>>,
    <<30194, 8835>>, <<34718, 35878>>, <<64332, 40934>>, <<32628, 24304>>,
    <<10250, 10166>>, <<22006, 55776>>, <<56067, 35553>>, <<16569, 2032>>,
    <<42255, 18931>>, <<15314, 10074>>, <<24659, 24623>>, <<11348, 27030>>,
    <<12512, 24600>>, <<39058, 13946>>, <<28065, 64759>>, <<47637, 43848>>,
    <<31589, 52285>>, <<57512, 41301>>, <<7904, 26390>>, <<46344, 27515>>,
    <<38633, 63079>>, <<15385, 39228>>, <<14823, 28559>>, <<31325, 60898>>,
    <<25206, 26162>>, <<1193, 34478>>, <<38206, 39025>>, <<48977, 6385>>,
    <<16502, 23968>>, <<42907, 63218>>, <<19034, 20940>>, <<5116, 12788>>,
    <<40441, 43795>>, <<30983, 25938>>, <<17385, 29449>>, <<65304, 64880>>,
    <<54026, 21159>>, <<34871, 35599>>, <<64399, 54290>>, <<58945, 28711>>,
    <<47857, 38311>>, <<50652, 54733>>, <<22536, 21210>>, <<13353, 39022>>,
    <<38277, 37190>>, <<59448, 17738>>, <<7062, 49156>>, <<24563, 46925>>,
    <<59395, 53148>>, <<55580, 23157>>, <<57648, 64662>>, <<21410, 36816>>,
    <<53592, 49556>>, <<21413, 901>>, <<17087, 4597>>, <<43202, 1781>>,
    <<38951, 47907>>, <<38454, 15065>>, <<1475, 25257>>, <<3210, 10692>>,
    <<27869, 52088>>, <<50460, 30792>>, <<20494, 22618>>, <<32227, 30820>>,
    <<10583, 4206>>, <<31993, 41131>>, <<11715, 40681>>, <<28123, 15659>>,
    <<27714, 15512>>, <<25868, 57380>>, <<6175, 27115>>, <<50885, 44324>>,
    <<39224, 55489>>, <<63881, 32995>>, <<30862, 32232>>, <<49054, 2236>>,
    <<45609, 48105>>, <<41582, 47403>>, <<45867, 55724>>, <<4730, 26570>>,
    <<41846, 49250>>, <<41508, 6358>>, <<2202, 17104>>, <<34663, 22451>>,
    <<4509, 18138>>, <<19409, 42152>>, <<20945, 18900>>, <<21320, 45038>>,
    <<34790, 47279>>, <<41361, 4938>>, <<42889, 49400>>, <<65175, 59465>>,
    <<26713, 47964>>, <<33819, 46555>>, <<53738, 18950>>, <<47477, 53194>>,
    <<47078, 24383>>, <<16093, 64664>>, <<63481, 26389>>, <<21780, 11552>>,
    <<34821, 32699>>, <<49060, 55508>>, <<21308, 48990>>, <<44758, 58431>>,
    <<6922, 33777>>, <<44647, 52464>>, <<40039, 51554>>, <<5167, 898>>,
    <<51039, 38250>>, <<30076, 55609>>, <<27751, 26906>>, <<45753, 49320>>,
    <<5952, 12776>>, <<4448, 59003>>, <<17463, 31185>>, <<4531, 10650>>,
    <<10070, 3041>>, <<34540, 18226>>, <<18415, 63161>>, <<17173, 41292>>,
    <<28841, 27508>>, <<31678, 31106>>, <<34546, 54190>>, <<8572, 30599>>,
    <<29977, 50033>>, <<6189, 17708>>, <<57368, 23138>>, <<7889, 21882>>,
    <<33951, 4112>>, <<63559, 16457>>, <<61841, 16518>>, <<49563, 44165>>,
    <<41792, 59221>>, <<17575, 13575>>, <<62763, 28169>>, <<47507, 28739>>,
    <<15774, 63988>>, <<27247, 26994>>, <<44310, 23015>>, <<31111, 9514>>,
    <<18944, 8896>>, <<3633, 26825>>, <<44027, 40629>>, <<40222, 22030>>,
    <<45556, 47687>>, <<32153, 14345>>, <<4455, 63816>>, <<59275, 43574>>,
    <<16697, 60791>>, <<61290, 13265>>, <<14682, 45033>>, <<60180, 11570>>,
    <<43767, 5606>>, <<19911, 32307>>, <<55338, 5526>>, <<51780, 7211>>,
    <<22574, 45135>>, <<14826, 2582>>, <<51152, 8927>>, <<29422, 33374>>,
    <<44258, 36847>>, <<33430, 32618>>, <<440, 6228>>, <<15114, 45473>>,
    <<39463, 55364>>, <<46653, 53660>>, <<25347, 28613>>, <<64517, 5651>>,
    <<60030, 26347>>, <<42940, 3632>>, <<75, 28554>>, <<17869, 32990>>,
    <<30307, 4454>>, <<30737, 26473>>, <<27810, 9119>>, <<196, 45022>>,
    <<30206, 40308>>, <<29256, 54976>>, <<50473, 12307>>, <<63631, 52155>>,
    <<21133, 33595>>, <<19966, 27993>>, <<51428, 44198>>, <<14097, 25319>>,
    <<30890, 56523>>, <<16225, 48187>>, <<2343, 48913>>, <<52851, 37649>>,
    <<11526, 6942>>, <<31874, 53498>>, <<47301, 8806>>, <<26706, 2984>>,
    <<31030, 24792>>, <<14131, 31550>>, <<10008, 48269>>, <<35405, 62965>>,
    <<22355, 61744>>, <<47384, 7630>>, <<39805, 56339>>, <<18592, 10779>>,
    <<12566, 14215>>, <<35577, 682>>, <<48393, 35481>>, <<49540, 18359>>,
    <<15915, 25646>>, <<21756, 30372>>, <<60124, 21082>>, <<52544, 22165>>,
    <<17633, 14416>>, <<56169, 6481>>, <<50167, 53046>>, <<975, 61765>>,
    <<12364, 9900>>, <<57995, 39486>>, <<18841, 31481>>, <<38868, 35766>>,
    <<5971, 13908>>, <<5650, 21779>>, <<37762, 30011>>, <<60612, 43893>>,
    <<44784, 58531>>, <<59881, 34463>>, <<35821, 34483>>, <<64274, 57410>>,
    <<27900, 37030>>, <<58983, 55637>>, <<42234, 13237>>, <<62240, 32438>>,
    <<42442, 17601>>, <<61244, 54448>>, <<44500, 2756>>, <<545, 35351>>,
    <<41666, 60143>>, <<50973, 33398>>, <<61942, 60995>>, <<1701, 15794>>,
    <<13692, 49759>>, <<38527, 7230>>, <<46483, 31809>>, <<42584, 2135>>,
    <<15481, 39788>>, <<21511, 19943>>, <<7824, 49314>>, <<7279, 45683>>,
    <<39800, 17770>>, <<8144, 21816>>, <<29500, 14657>>, <<63826, 32591>>,
    <<30063, 2225>>, <<34945, 47617>>, <<43381, 13837>>, <<43404, 33506>>,
    <<50481, 28273>>, <<46416, 24392>>, <<22951, 58184>>, <<4504, 55808>>,
    <<43385, 30226>>, <<13497, 33081>>, <<27273, 24193>>, <<28405, 16206>>,
    <<55176, 43848>>, <<733, 33904>>, <<54586, 2417>>, <<4539, 12378>>,
    <<16806, 7671>>, <<22482, 58902>>, <<40203, 49984>>, <<20462, 20352>>,
    <<38158, 18429>>>>

\* The same for the seed 0xffffffff.
ReferenceAllOnes == <<
    <<6398, 27043>>, <<7314, 16674>>, <<59793, 60428>>, <<36876, 44103>>,
    <<51710, 14260>>, <<34492, 65088>>, <<51118, 20694>>, <<50503, 506>>,
    <<1175, 45529>>, <<18583, 32544>>, <<63537, 35455>>, <<33055, 29307>>,
    <<38874, 22258>>, <<45580, 14443>>, <<9575, 61195>>, <<45831, 10442>>,
    <<59596, 52763>>, <<11190, 23693>>, <<36289, 43446>>, <<42797, 64599>>,
    <<64523, 54583>>, <<53798, 37590>>, <<27148, 3598>>, <<50943, 48549>>,
    <<21246, 52425>>, <<30888, 905>>, <<11912, 20057>>, <<18582, 12332>>,
    <<61180, 4452>>, <<25117, 61808>>, <<53993, 52727>>, <<32105, 16024>>,
    <<58218, 56022>>, <<59356, 45585>>, <<32105, 10100>>, <<20945, 27276>>,
    <<13515, 63258>>, <<40660, 64089>>, <<64697, 43435>>, <<51329, 56540>>,
    <<16192, 54659>>, <<42474, 38809>>, <<40477, 34553>>, <<24474, 1659>>,
    <<50772, 37783>>, <<65213, 50889>>, <<38044, 63215>>, <<65434, 6373>>,
    <<2050, 10045>>, <<12790, 11009>>, <<39357, 25448>>, <<32288, 16855>>,
    <<33530, 36948>>, <<18144, 62932>>, <<57593, 37167>>, <<13317, 31661>>,
    <<7017, 18322>>, <<54308, 21825>>, <<28784, 3184>>, <<42366, 49597>>,
    <<53629, 17067>>, <<63191, 37688>>, <<31306, 63782>>, <<65432, 50765>>,
    <<51599, 40617>>, <<36625, 20370>>, <<38761, 34526>>, <<33864, 64791>>,
    <<358, 937>>, <<5880, 15950>>, <<2579, 43432>>, <<46371, 10447>>,
    <<23994, 58759>>, <<28197, 40045>>, <<42005, 65120>>, <<41092, 43619>>,
    <<22830, 16132>>, <<51319, 21069>>, <<12163, 57360>>, <<2656, 20696>>,
    <<6292, 55027>>, <<25040, 13805>>, <<31979, 58018>>, <<54683, 1788>>,
    <<62530, 60990>>, <<61080, 35450>>, <<45000, 12032>>, <<37287, 5283>>,
    <<14528, 59898>>, <<17989, 9496>>, <<24506, 33230>>, <<6378, 5880>>,
    <<48804, 20031>>, <<21785, 13475>>, <<51960, 3125>>, <<34118, 6752>>,
    <<17929, 47331>>, <<1406, 24386>>, <<44966, 51224>>, <<31635, 51976>>,
    <<36087, 45440>>, <<47365, 8842>>, <<63287, 3201>>, <<2412, 17488>>,
    <<52271, 4143>>, <<41684, 53995>>, <<10387, 62035>>, <<63940, 60368>>,
    <<40557, 28979>>, <<54848, 20718>>, <<52488, 14711>>, <<50078, 9984>>,
    <<26513, 22250>>, <<55363, 9082>>, <<28571, 51787>>, <<14152, 33267>>,
    <<33380, 34257>>, <<15722, 60935>>, <<9369, 51706>>, <<53931, 26144>>,
    <<28479, 21070>>, <<56596, 61040>>, <<4624, 49637>>, <<63792, 15495>>,
    <<29115, 17204>>, <<46597, 12240>>, <<41915, 62441>>, <<35864, 56780>>,
    <<6467, 8781>>, <<10831, 34448>>, <<4216, 38348>>, <<31635, 25631>>,
    <<16025, 35589>>, <<13638, 2285>>, <<34824, 33791>>, <<4637, 13449>>,
    <<29854, 44941>>, <<14153, 26696>>, <<23854, 8944>>, <<53542, 27615>>,
    <<31362, 15441>>, <<38083, 53858>>, <<45469, 6261>>, <<18897, 59621>>,
    <<5200, 42186>>, <<60364, 46218>>, <<56188, 8160>>, <<63726, 64771>>,
    <<64936, 13353>>, <<3867, 63083>>, <<61835, 45017>>, <<52499, 32098>>,
    <<37530, 39834>>, <<39997, 398>>, <<58970, 1533>>, <<594, 19604>>,
    <<30036, 11698>>, <<32997, 38462>>, <<4300, 38325>>, <<22749, 29571>>,
    <<23862, 5087>>, <<3188, 36758>>, <<58427, 38679>>, <<49629, 64213>>,
    <<10053, 34927>>, <<3342, 17253>>, <<46531, 30074>>, <<43537, 45776>>,
    <<47373, 11757>>, <<52540, 14217>>, <<38872, 36965>>, <<31900, 34904>>,
    <<54783, 44516>>, <<50860, 46373>>, <<57344, 46152>>, <<41899, 6553>>,
    <<41884, 53482>>, <<2454, 6950>>, <<58273, 1142>>, <<57391, 62692>>,
    <<62965, 19874>>, <<36973, 48234>>, <<33394, 41331>>, <<56224, 23464>>,
    <<27974, 42085>>, <<15470, 37843>>, <<34500, 3259>>, <<34928, 26194>>,
    <<12269, 55180>>, <<25093, 8876>>, <<43404, 36036>>, <<58431, 5021>>,
    <<28464, 35029>>, <<8495, 26802>>, <<36492, 6009>>, <<62377, 52942>>,
    <<47336, 28196>>, <<56999, 3117>>, <<12705, 17044>>, <<8079, 11938>>,
    <<16447, 48170>>, <<41785, 9308>>, <<477, 32897>>, <<31834, 38755>>,
    <<46345, 51131>>, <<33753, 37949>>, <<262, 28134>>, <<57446, 45189>>,
    <<32579, 20491>>, <<46513, 42518>>, <<17086, 29068>>, <<25154, 64809>>,
    <<17519, 13804>>, <<10250, 31120>>, <<28374, 3811>>, <<5571, 53642>>,
    <<37456, 57030>>, <<29947, 26230>>, <<42299, 47700>>, <<3680, 34862>>,
    <<54633, 58039>>, <<17051, 9287>>, <<63746, 4317>>, <<63741, 27862>>,
    <<41564, 41439>>, <<58883, 53242>>, <<15109, 64351>>, <<64791, 16503>>,
    <<17094, 3130>>, <<51870, 60985>>, <<17887, 47952>>, <<34740, 59032>>,
    <<48195, 24979>>, <<36301, 56060>>, <<38717, 57898>>, <<14388, 17025>>,
    <<22039, 44683>>, <<58158, 11295>>, <<22827, 40586>>, <<34738, 26403>>,
    <<12003, 33990>>, <<294, 29443>>, <<15771, 4030>>, <<32453, 29875>>,
    <<30652, 54947>>, <<30223, 30498>>, <<8929, 12561>>, <<43340, 7210>>,
    <<10633, 56524>>, <<11757, 64214>>, <<25917, 20641>>, <<9916, 56327>>,
    <<622, 9114>>, <<56575, 15451>>, <<49928, 54376>>, <<16723, 657>>,
    <<4885, 29907>>, <<55416, 52766>>, <<32697, 43190>>, <<52657, 52735>>,
    <<15382, 50911>>, <<53836, 32460>>, <<49670, 42442>>, <<1275, 58626>>,
    <<20188, 63285>>, <<27578, 458>>, <<35575, 61592>>, <<35078, 49984>>,
    <<29435, 30452>>, <<300, 63633>>, <<3197, 14133>>, <<977, 47984>>,
    <<21660, 65005>>, <<36400, 60002>>, <<6866, 62802>>, <<25730, 18513>>,
    <<35748, 21910>>, <<3454, 44330>>, <<48904, 16987>>, <<16924, 20016>>,
    <<41390, 54215>>, <<46937, 19724>>, <<46244, 10252>>, <<30286, 52160>>,
    <<26351, 32087>>, <<12139, 11844>>, <<8390, 64938>>, <<43763, 22577>>,
    <<28342, 24769>>, <<63582, 15239>>, <<43643, 55877>>, <<37595, 36212>>,
    <<19741, 61586>>, <<8586, 30336>>, <<49566, 42546>>, <<49461, 16767>>,
    <<4416, 25832>>, <<45996, 5156>>, <<21537, 45087>>, <<19228, 65127>>,
    <<21392, 35209>>, <<47562, 26064>>, <<12165, 29867>>, <<58803, 49021>>,
    <<13627, 48802>>, <<11681, 13937>>, <<27275, 17244>>, <<14758, 65072>>,
    <<2788, 33674>>, <<4158, 21770>>, <<48365, 64954>>, <<8213, 43512>>,
    <<26996, 25709>>, <<26028, 56626>>, <<49806, 12002>>, <<21948, 44281>>,
    <<47794, 4074>>, <<2608, 526>>, <<64902, 8525>>, <<17824, 29760>>,
    <<31039, 11977>>, <<36558, 49714>>, <<61825, 38015>>, <<5441, 8071>>,
    <<14833, 33042>>, <<31798, 38175>>, <<6796, 35007>>, <<38315, 3276>>,
    <<38350, 29578>>, <<54641, 20570>>, <<1198, 31951>>, <<51081, 14602>>,
    <<54159, 13562>>, <<36435, 58583>>, <<49342, 62271>>, <<6550, 43476>>,
    <<45371, 16765>>, <<29971, 64733>>, <<43401, 42945>>, <<54906, 42782>>,
    <<53274, 64947>>, <<56536, 30113>>, <<12134, 26037>>, <<10106, 23316>>,
    <<13919, 28651>>, <<37173, 40412>>, <<39347, 47077>>, <<28581, 29353>>,
    <<62835, 61263>>, <<30536, 35283>>, <<42550, 38362>>, <<9255, 18103>>,
    <<44530, 64813>>, <<59936, 51313>>, <<23231, 53096>>, <<4489, 59479>>,
    <<31095, 55570>>, <<16322, 36004>>, <<48012, 43382>>, <<9579, 21716>>,
    <<18822, 37950>>, <<4685, 12074>>, <<59656, 13132>>, <<44628, 32314>>,
    <<439, 20239>>, <<54055, 30166>>, <<1069, 16978>>, <<51590, 31323>>,
    <<6566, 11992>>, <<13087, 29936>>, <<41435, 26940>>, <<6977, 48624>>,
    <<65202, 48306>>, <<56587, 63330>>, <<48714, 39776>>, <<37744, 30730>>,
    <<61155, 61615>>, <<18774, 19402>>, <<51164, 7416>>, <<48732, 25129>>,
    <<53791, 51425>>, <<13700, 27668>>, <<6721, 57397>>, <<21817, 15717>>,
    <<64683, 37162>>, <<40695, 31020>>, <<37516, 56602>>, <<37142, 49308>>,
    <<31760, 40665>>, <<13687, 61464>>, <<53822, 771>>, <<60327, 22338>>,
    <<30524, 47725>>, <<57569, 4955>>, <<38485, 7811>>, <<15111, 55018>>,
    <<13951, 35430>>, <<14468, 62920>>, <<35520, 39774>>, <<17468, 47552>>,
    <<3469, 38006>>, <<995, 47861>>, <<14582, 8953>>, <<13247, 3486>>,
    <<22674, 21168>>, <<12788, 39007>>, <<14788, 12278>>, <<64008, 28618>>,
    <<28652, 1122>>, <<20180, 55245>>, <<7558, 53448>>, <<38973, 27894>>,
    <<52694, 17204>>, <<3310, 60847>>, <<57868, 58145>>, <<3650, 44449>>,
    <<11216, 5845>>, <<57161, 17988>>, <<37125, 17482>>, <<34996, 15047>>,
    <<49823, 27755>>, <<47833, 26275>>, <<37722, 12830>>, <<55346, 40212>>,
    <<12480, 49311>>, <<42716, 64204>>, <<48215, 59749>>, <<47377, 62509>>,
    <<59970, 53672>>, <<41998, 4568>>, <<61697, 31786>>, <<62751, 3811>>,
    <<49906, 6783>>, <<41496, 5042>>, <<10582, 16135>>, <<53887, 33852>>,
    <<51070, 42387>>, <<43325, 56074>>, <<9313, 60478>>, <<2809, 28692>>,
    <<33927, 48203>>, <<43085, 48125>>, <<64338, 23816>>, <<9258, 65349>>,
    <<38868, 8390>>, <<11009, 17256>>, <<34830, 20446>>, <<52837, 23851>>,
    <<13362, 34070>>, <<42465, 9172>>, <<53227, 54203>>, <<65256, 49752>>,
    <<1133, 16235>>, <<17052, 10215>>, <<8473, 51204>>, <<53141, 34697>>,
    <<22013, 39797>>, <<30966, 37900>>, <<41197, 9889>>, <<49853, 64954>>,
    <<27304, 58356>>, <<4397, 39497>>, <<22232, 57586>>, <<32871, 10699>>,
    <<23757, 61277>>, <<11692, 19080>>, <<23698, 39777>>, <<48579, 25862>>,
    <<18640, 3850>>, <<24990, 43657>>, <<55202, 41045>>, <<8949, 28677>>,
    <<17707, 26128>>, <<24763, 22462>>, <<9976, 29229>>, <<64464, 41506>>,
    <<56805, 40573>>, <<42688, 37324>>, <<33095, 46041>>, <<5990, 48970>>,
    <<23612, 37384>>, <<7424, 16544>>, <<2455, 29634>>, <<8513, 28990>>,
    <<47183, 48857>>, <<47071, 4037>>, <<33596, 59456>>, <<19512, 64503>>,
    <<43342, 52234>>, <<17530, 34597>>, <<49453, 52763>>, <<30233, 43093>>,
    <<39155, 24863>>, <<56649, 43269>>, <<11211, 17377>>, <<16793, 12187>>,
    <<30582, 17507>>, <<54527, 52307>>, <<51248, 39455>>, <<21757, 40127>>,
    <<59813, 11517>>, <<39629, 52685>>, <<56926, 28248>>, <<51412, 28535>>,
    <<49601, 29765>>, <<45430, 44164>>, <<58602, 65320>>, <<27751, 29446>>,
    <<40207, 37811>>, <<64654, 14363>>, <<64761, 43621>>, <<15161, 13005>>,
    <<58969, 53815>>, <<21688, 44972>>, <<5794, 49811>>, <<32427, 45687>>,
    <<37462, 60533>>, <<15605, 15825>>, <<40890, 57609>>, <<7174, 13476>>,
    <<63040, 286>>, <<39795, 53509>>, <<39771, 17775>>, <<42759, 28070>>,
    <<15946, 32579>>, <<26811, 21418>>, <<59555, 10131>>, <<21128, 55215>>,
    <<36941, 46981>>, <<22340, 63445>>, <<8899, 11436>>, <<2516, 63536>>,
    <<3794, 8513>>, <<61022, 87>>, <<21121, 18661>>, <<1532, 57644>>,
    <<33916, 13835>>, <<2404, 21403>>, <<32184, 17917>>, <<29576, 43919>>,
    <<49905, 3602>>, <<58312, 22619>>, <<24199, 62314>>, <<52898, 17203>>,
    <<22226, 51466>>, <<55623, 3454>>, <<65361, 52278>>, <<6204, 55061>>,
    <<42657, 50787>>, <<47053, 26101>>, <<47090, 51434>>, <<63889, 47380>>,
    <<18652, 30273>>, <<53801, 41453>>, <<57536, 52086>>, <<59652, 32681>>,
    <<7726, 41812>>, <<17532, 43088>>, <<48754, 9167>>, <<59659, 31990>>,
    <<22075, 22022>>, <<61218, 20819>>, <<36136, 8976>>, <<59753, 10615>>,
    <<30799, 15502>>, <<13551, 45413>>, <<47941, 51416>>, <<9707, 53800>>,
    <<5937, 56138>>, <<20683, 22024>>, <<16037, 29866>>, <<37069, 51048>>,
    <<6648, 4428>>, <<51671, 15533>>, <<30649, 21918>>, <<62581, 14190>>,
    <<48639, 56234>>, <<59289, 40336>>, <<60320, 59290>>, <<22650, 36063>>,
    <<29725, 18767>>, <<11918, 27113>>, <<30805, 62965>>, <<54052, 55992>>,
    <<57799, 15174>>, <<50865, 46864>>, <<62540, 15346>>, <<44620, 33020>>,
    <<39180, 3378>>, <<57821, 49281>>, <<21257, 28392>>, <<40550, 64226>>,
    <<24507, 35490>>, <<9714, 56437>>, <<58571, 47660>>, <<56951, 17402>>,
    <<61233, 12163>>, <<45763, 216>>, <<40221, 18437>>, <<24634, 37830>>,
    <<4936, 58071>>, <<9948, 1144>>, <<40845, 28578>>, <<29246, 62178>>,
    <<51228, 10784>>, <<48710, 45544>>, <<37251, 38909>>, <<7507, 33761>>,
    <<3313, 25877>>, <<43571, 37244>>, <<18349, 57794>>, <<34738, 55455>>,
    <<6133, 47430>>, <<122, 36968>>, <<63002, 53794>>, <<61028, 44229>>,
    <<40507, 34905>>, <<32774, 63440>>, <<36286, 26728>>, <<45143, 19406>>,
    <<2964, 1049>>, <<30942, 21504>>, <<18650, 23787>>, <<15672, 3888>>,
    <<58908, 57581>>, <<10032, 17174>>, <<14478, 9863>>, <<63757, 11834>>,
    <<4473, 23853>>, <<7987, 41887>>, <<9059, 19573>>, <<63195, 18709>>,
    <<44340, 26797>>, <<31039, 3192>>, <<44562, 57042>>, <<13831, 49107>>,
    <<63349, 7832>>, <<63062, 55516>>, <<49145, 4747>>, <<36119, 62553>>,
    <<50341, 60557>>, <<37672, 57026>>, <<17742, 58853>>, <<20082, 55271>>,
    <<20024, 53694>>, <<12330, 26375>>, <<14893, 54508>>, <<8991, 9648>>,
    <<53112, 59539>>, <<43882, 16943>>, <<35446, 28040>>, <<34512, 60598>>,
    <<3866, 44239>>, <<3991, 40250>>, <<41429, 4733>>, <<43729, 25795>>,
    <<300, 53674>>, <<5622, 53376>>, <<46414, 18626>>, <<22061, 51804>>,
    <<43758, 54064>>, <<18187, 61074>>, <<45616, 22097>>, <<44847, 13095>>,
    <<48130, 39412>>, <<18698, 31323>>, <<54929, 2688>>, <<33882, 14516>>,
    <<7159, 59241>>, <<25475, 46993>>, <<20392, 17325>>, <<49375, 40851>>,
    <<31200, 52263>>, <<2310, 31126>>, <<26930, 28177>>, <<12951, 58442>>,
    <<64311, 35358>>, <<15414, 35533>>, <<21084, 44650>>, <<22614, 3464>>,
    <<31902, 2115>>, <<15031, 2704>>, <<63351, 4105>>, <<26734, 4715>>,
    <<18966, 20146>>, <<58181, 10385>>, <<59828, 5668>>, <<7605, 6358>>,
    <<15213, 58939>>, <<56794, 34809>>, <<14847, 40358>>, <<62914, 47334>>,
    <<15737, 64012>>, <<3503, 50929>>, <<21435, 40347>>, <<41365, 21615>>,
    <<5898, 55447>>, <<534, 53891>>, <<15319, 10220>>, <<20079, 422>>,
    <<14731, 12435>>, <<4287, 63044>>, <<36463, 21284>>, <<59005, 6201>>,
    <<31750, 62961>>, <<32547, 50117>>, <<15560, 40357>>, <<63859, 19973>>,
    <<59334, 34486>>, <<4103, 19295>>, <<1533, 1469>>, <<4463, 38900>>,
    <<24642, 30063>>, <<27201, 37135>>, <<35005, 62007>>, <<10222, 28576>>,
    <<40663, 30780>>, <<43059, 52185>>, <<13491, 7278>>, <<23237, 64866>>,
    <<59118, 30955>>, <<6532, 25290>>, <<61254, 17043>>, <<52503, 31660>>,
    <<44936, 37218>>, <<20770, 30205>>, <<38403, 44997>>, <<42547, 59274>>,
    <<51928, 45415>>, <<56824, 44874>>, <<64441, 38005>>, <<40159, 57430>>,
    <<34196, 7114>>, <<17785, 65302>>, <<30273, 10172>>, <<58379, 48828>>,
    <<22512, 5560>>, <<26797, 12006>>, <<53040, 46294>>, <<27092, 9785>>,
    <<11168, 46468>>, <<30580, 56001>>, <<59529, 52083>>, <<15844, 63056>>,
    <<58456, 2592>>, <<4621, 3549>>, <<15862, 11645>>, <<3796, 4447>>,
    <<45562, 48006>>, <<16237, 57377>>, <<8513, 978>>, <<59766, 64962>>,
    <<20985, 28274>>, <<51915, 4960>>, <<55080, 33331>>, <<57161, 28373>>,
    <<43346, 42894>>, <<54722, 7378>>, <<18579, 29158>>, <<21714, 37725>>,
    <<35990, 52904>>, <<16634, 6758>>, <<35200, 34936>>, <<59801, 8266>>,
    <<40302, 3321>>, <<43570, 61078>>, <<20094, 24058>>, <<11140, 4384>>,
    <<30607, 54143>>, <<62193, 29793>>, <<60150, 45811>>, <<852, 43274>>,
    <<62811, 46575>>, <<13912, 31593>>, <<21497, 48702>>, <<32212, 14185>>,
    <<26355, 49850>>, <<43162, 15500>>, <<32034, 48696>>, <<19840, 41964>>,
    <<35106, 19948>>, <<19967, 51578>>, <<65103, 42401>>, <<56790, 24618>>,
    <<49924, 53003>>, <<50385, 52779>>, <<25392, 18144>>, <<9668, 59302>>,
    <<48244, 27669>>, <<4371, 43163>>, <<20441, 3256>>, <<11823, 5128>>,
    <<46999, 30481>>, <<8314, 9559>>, <<51527, 2613>>, <<65032, 10633>>,
    <<8027, 62306>>, <<31768, 59240>>, <<24411, 50621>>, <<5397, 20273>>,
    <<9158, 31304>>, <<40470, 54330>>, <<63270, 7492>>, <<43503, 42568>>,
    <<19726, 37380>>, <<49095, 16125>>, <<65071, 5795>>, <<64529, 31190>>,
    <<50100, 63882>>, <<637, 48506>>, <<25810, 4523>>, <<49353, 13751>>,
    <<64168, 3136>>, <<47563, 29184>>, <<17581, 2957>>, <<61751, 61369>>,
    <<13310, 22581>>, <<63652, 49063>>, <<47499, 779>>, <<30725, 29579>>,
    <<62482, 5327>>, <<62516, 9325>>, <<46882, 48463>>, <<17301, 64504>>,
    <<45609, 41515>>, <<4774, 38416>>, <<64319, 6452>>, <<45381, 63009>>,
    <<40167, 13594>>, <<36706, 49603>>, <<65293, 26025>>, <<18755, 63834>>,
    <<13935, 57238>>, <<30603, 9063>>, <<12153, 25790>>, <<22460, 10548>>,
    <<44613, 6241>>, <<46996, 22446>>, <<54943, 6697>>, <<56235, 58360>>,
    <<56981, 19063>>, <<18275, 29553>>, <<30364, 30697>>, <<12545, 50280>>,
    <<13291, 22811>>, <<53519, 47107>>, <<27790, 6277>>, <<57752, 10814>>,
    <<55339, 39808>>, <<18314, 5433>>, <<50170, 5840>>, <<1181, 54984>>,
    <<16824, 4475>>, <<63501, 16189>>, <<64877, 58513>>, <<24234, 59736>>,
    <<57486, 8567>>, <<49636, 52838>>, <<44002, 22813>>, <<55115, 16252>>,
    <<44426, 54134>>, <<23837, 5745>>, <<31791, 40958>>, <<55531, 36672>>,
    <<16405, 40041>>, <<50711, 28117>>, <<7719, 9620>>, <<16087, 13310>>,
    <<23042, 34001>>, <<63508, 7719>>, <<36552, 49333>>, <<42786, 64614>>,
    <<8794, 1860>>, <<42448, 11876>>, <<44254, 53725>>, <<62935, 38904>>,
    <<64926, 35616>>, <<7205, 51072>>, <<5703, 34296>>, <<8141, 5489>>,
    <<27281, 63611>>, <<48421, 39661>>, <<65480, 24389>>, <<45289, 60854>>,
    <<35584, 12955>>, <<33826, 43957>>, <<24946, 60892>>, <<53952, 40954>>,
    <<11202, 25723>>, <<30434, 42807>>, <<44179, 63041>>, <<34725, 12984>>,
    <<2770, 8768>>, <<45168, 21732>>, <<21558, 25892>>, <<13043, 43469>>,
    <<19160, 41136>>, <<61952, 27828>>, <<62093, 4790>>, <<28896, 23889>>,
    <<26513, 56576>>, <<40991, 64415>>, <<27001, 1379>>, <<49251, 36893>>,
    <<46838, 11408>>, <<54656, 12550>>, <<59541, 32337>>, <<8008, 39872>>,
    <<247, 62287>>, <<9559, 53189>>, <<6201, 25393>>, <<30273, 61528>>,
    <<47830, 22589>>, <<21962, 223>>, <<51605, 23798>>, <<47350, 25207>>,
    <<52989, 33985>>, <<11282, 13310>>, <<59908, 19214>>, <<26869, 62259>>,
    <<48005, 13205>>, <<43337, 49445>>, <<35865, 348>>, <<55033, 57117>>,
    <<21894, 24447>>, <<42448, 14849>>, <<32917, 25>>, <<59928, 29128>>,
    <<43641, 8761>>, <<21445, 46385>>, <<53405, 36004>>, <<52224, 62889>>,
    <<47146, 28300>>, <<35121, 35986>>, <<22908, 60344>>, <<23906, 39687>>,
    <<16490, 56417>>, <<60456, 168>>, <<50662, 39837>>, <<55770, 6698>>,
    <<17846, 28538>>, <<51554, 12575>>, <<64038, 8774>>, <<16686, 9032>>,
    <<27227, 7818>>, <<50700, 53518>>, <<39170, 21816>>, <<33909, 65146>>,
    <<23534, 59024>>, <<40368, 51561>>, <<48689, 39478>>, <<836, 22564>>,
    <<60756, 31914>>, <<13055, 49416>>, <<24013, 25857>>, <<6420, 62609>>,
    <<12849, 2009>>, <<28250, 38021>>, <<4621, 3379>>, <<42703, 51525>>,
    <<36964, 32477>>, <<10576, 27424>>, <<36774, 52503>>, <<59133, 50472>>,
    <<26659, 57095>>, <<39696, 36840>>, <<26497, 15433>>, <<19597, 54584>>,
    <<64895, 46466>>, <<21464, 27939>>, <<1211, 51694>>, <<6669, 63612>>,
    <<31129, 32120>>, <<28178, 21103>>, <<48424, 63487>>, <<44967, 58233>>,
    <<36193, 43422>>, <<7762, 25724>>, <<65181, 9058>>, <<50595, 55555>>,
    <<54544, 54645>>, <<31723, 44937>>, <<50056, 29675>>, <<63987, 4096>>,
    <<13258, 64716>>, <<9419, 64190>>, <<19734, 9074>>, <<3080, 50423>>,
    <<24883, 530>>, <<18701, 47358>>, <<41491, 53116>>, <<46988, 51984>>,
    <<28530, 19997>>, <<19412, 31228>>, <<57094, 47504>>, <<44859, 57693>>,
    <<2244, 41724>>, <<28943, 62196>>, <<26900, 32056>>, <<40794, 64109>>,
    <<25348, 1841>>>>

ReferenceOf(seed) ==
    IF seed = <<0, 5489>> THEN Reference5489 ELSE ReferenceAllOnes

\* C21: for a fixed seed the n-th output of random_int is the n-th number
\* of the reference MT19937 sequence for that seed, for the first 1000
\* outputs (all numbers modulo 2^32); this is so for the first generator
\* made with a seed and for a second one made with the same seed, whose
\* outputs are therefore those of the first.
C21_MatchesReference ==
    drawn > 0 => drew = ReferenceOf(tseed)[drawn]

\* C21 witness: the second generator of the seed with every bit set has
\* given its 1000th output, past the second regeneration of the state.
C21_Witness ==
    /\ inst = 2
    /\ tseed = <<65535, 65535>>
    /\ drawn = MaxDraws
    /\ drawn > N
    /\ mti > 0
    /\ mti < N


\* --------------------------------------------------- claims: the lineup

\* The map with an entry for every channel element of a lineup array.
CompleteLineup(els) ==
    [id \in {els[i].identifier : i \in {j \in 1..Len(els) :
                                        els[j].kind \in {"ota", "ott"}}} |->
        LET at == {j \in 1..Len(els) : els[j].identifier = id
                                       /\ els[j].kind \in {"ota", "ott"}}
        IN els[CHOOSE j \in at : \A k \in at : k <= j].kind]

\* The lineup file holds a lineup: an array of which every channel element
\* has the object its kind names, with a channel in it.
HoldsLineup(file) ==
    /\ file.kind = "array"
    /\ \A i \in 1..Len(file.els) :
           file.els[i].kind \in {"ota", "ott"} => file.els[i].detail
    /\ \E i \in 1..Len(file.els) : file.els[i].kind \in {"ota", "ott"}

\* C25: whenever a request handler can read LINEUP_DATA, it is the complete
\* lineup of before the last refresh or the complete lineup of the lineup
\* file, never an empty or a partly filled map, also after a refresh whose
\* parsing failed part-way.
C25_ReadersSeeOldOrNew ==
    lpc # "exited" =>
        \/ LINEUP_DATA = oldLineup
        \/ HoldsLineup(lineupFile)
           /\ LINEUP_DATA = CompleteLineup(lineupFile.els)


\* ------------------------------------------------------- claims: the IV

\* For each envelope seed, what the rule gives with the reference
\* implementation of MT19937 seeded with seed XOR 0xFFFFFFFF: the words
\* consumed before the IV words, 1 + (w & 0xF) + 1 for the first word w, and
\* the next four words, each least significant byte first.
IvReference(s) ==
    IF s = <<0, 5>>
    THEN [before |-> 2,
          iv |-> <<179, 247, 214, 95, 82, 212, 134, 40, 202, 192, 191, 196, 200, 237, 201, 163>>]
    ELSE IF s = <<0, 9>>
    THEN [before |-> 17,
          iv |-> <<201, 42, 147, 80, 216, 107, 186, 101, 182, 222, 147, 92, 195, 161, 202, 12>>]
    ELSE IF s = <<0, 0>>
    THEN [before |-> 5,
          iv |-> <<64, 254, 188, 134, 214, 80, 174, 199, 250, 1, 71, 197, 217, 177, 151, 4>>]
    ELSE IF s = <<65535, 65535>>
    THEN [before |-> 14,
          iv |-> <<70, 60, 75, 228, 216, 189, 132, 14, 88, 154, 178, 246, 140, 205, 204, 69>>]
    ELSE IF s = <<4660, 22136>>
    THEN [before |-> 16,
          iv |-> <<134, 142, 157, 65, 129, 193, 189, 49, 66, 24, 185, 241, 6, 46, 137, 54>>]
    ELSE [before |-> 5,
          iv |-> <<53, 170, 84, 23, 146, 49, 138, 100, 236, 153, 36, 71, 75, 61, 61, 18>>]

\* C26: in crypt and in decrypt alike the IV is the one the rule gives for
\* the envelope seed: a generator seeded with seed XOR 0xFFFFFFFF, its first
\* word w drawn, (w & 0xF) + 1 further words discarded, the next 4 words
\* little-endian; between 2 and 17 words are consumed before the IV words.
C26_IvRule ==
    ivpc = "done" =>
        /\ beforeIv = IvReference(ivSeed).before
        /\ beforeIv \in 2..17
        /\ ivBuff = IvReference(ivSeed).iv
        /\ ivSide = "decrypt" => ivBuff = ivCrypt

\* decrypt has derived the IV of an envelope whose seed makes the rule
\* discard all 16 words
C26_Witness ==
    /\ ivpc = "done"
    /\ ivSide = "decrypt"
    /\ ivSeed = <<0, 9>>
    /\ beforeIv = 17
    /\ ivBuff = ivCrypt

====
